---- MODULE Spec2Model ----
(***************************************************************************)
(* Model of the density-map application: the playback controller of        *)
(* src/src/lib/KDEMap.svelte, the preloading data store of                  *)
(* src/src/lib/dataStore.ts and the per-species statistics it computes.    *)
(*                                                                         *)
(* These specifications share the module:                                  *)
(*   Spec       the playback controller (animation loop, keys, timeline)   *)
(*   FairSpec   Spec with the browser's animation frames scheduled fairly  *)
(*   RedrawSpec Spec with viewport resizes and the history of drawMap calls *)
(*   FairRedrawSpec  RedrawSpec with animation frames scheduled fairly      *)
(*   ViewSpec   the map projection over every logger list and map size      *)
(*   StoreSpec  loadAllData, its subscribers and the synchronous getters   *)
(*   StatsSpec  precomputeMapStats applied to bounded detection series     *)
(*   BinSpec    the timeline histogram bins of KDEMap.svelte                *)
(*   WeekSpec   aggregateByWeek of src/src/lib/kdeService.ts                *)
(*   FieldSpec  renderKDEToCanvas of src/src/lib/kdeService.ts              *)
(***************************************************************************)
EXTENDS Integers, Sequences, FiniteSets, TLC

\* ------------------------------------------------------------------ bounds
\* longest detection series (number of dates) of a species shown on the map
MaxDays == 4
\* width of the timeline track in pixels (getBoundingClientRect().width)
TrackWidth == 2
\* largest count a logger reports for one day
MaxCount == 2
\* longest detection series given to precomputeMapStats
StatsDays == 2
\* calls a data callback receives before it stops registering
MaxDataCalls == 2
\* length of the series on which the rolling trend is exercised
TrendDays == 8
\* longest series put into timeline bins
BinDays == 5
\* the canvas of the density field, in pixels
FieldWidth == 2
FieldHeight == 1

\* ------------------------------------------------------------------- state
\* the playback controller (KDEMap.svelte)
VARIABLES
    species,          \* prop species: Species[]
    selectedSpecies,  \* prop selectedSpecies: string | null
    lifecycle,        \* "created" | "mounted" | "destroyed"
    pendingFrames,    \* animation-frame callbacks scheduled and not yet run or cancelled
    isPlaying,
    currentIndex,     \* in 1/Unit days
    needsRedraw,
    sinceLastFrame,   \* timestamp - lastFrameTime, saturated at FRAME_INTERVAL
    lastOp,           \* history: the handler that ran last
    redrawCauses,     \* history: Untracked, or what asked for a redraw since the
                      \* previous drawMap
    lastDraw,         \* history: NoDraw, or the causes the step just taken drew for
    drawnIndex        \* history: NoIndex, or the currentIndex that drawMap call read

\* the map projection of the playback controller (KDEMap.svelte)
VARIABLES
    loggers,               \* Array.from(getLoggerPositions().values())
    geoBounds,             \* the padded bounds of the loggers, computed once
    mapWidth,              \* in pixels
    mapHeight,
    projectionParams,      \* [offsetX, offsetY, scale]
    loggerScreenPositions  \* [x, y] per logger, in the order of loggers; <<>>
                           \* is the empty Map

viewVars == <<loggers, geoBounds, mapWidth, mapHeight, projectionParams,
              loggerScreenPositions>>

kdeVars == <<species, selectedSpecies, lifecycle, pendingFrames, isPlaying,
             currentIndex, needsRedraw, sinceLastFrame, lastOp, redrawCauses,
             lastDraw, drawnIndex, viewVars>>

\* precomputeMapStats applied to one species
VARIABLES
    statsInput,       \* the detection series of the species being processed
    statsResult       \* StatsPending, or what precomputeMapStats produced

statsVars == <<statsInput, statsResult>>

\* the data store (dataStore.ts)
VARIABLES
    serverSpecies,    \* the species list species_data.json holds
    loadingState,     \* LoadingProgress
    appData,          \* AppData
    loadPromise,      \* [id, status]; status "none" stands for null
    pc,               \* the await at which the body of loadAllData is suspended
    thrown,           \* the error the body has thrown, NoError if none
    subscribers,      \* loading callbacks registered
    loadingSeen,      \* per loading callback, the stage it was last called with
    dataSubscribers,  \* data callbacks registered
    dataCalls,        \* per data callback, how often it was called
    dataCallLog,      \* history: what every data callback call was handed
    loaderCalls,      \* history: calls of the load* functions and preloadImages
    precomputeRuns,   \* history: calls of precomputeMapStats
    lastReturned,     \* history: id of the promise the last loadAllData call returned
    sharedLoad,       \* history: the states in which an existing promise was returned
    statsReturned,    \* history: per name, the objects getSpeciesMapStats returned
    progressLog,      \* history: stage and progress of every updateProgress call
    received          \* history: per data callback, NotRegistered or the calls
                      \* since it was last registered

storeVars == <<serverSpecies, loadingState, appData, loadPromise, pc, thrown,
               subscribers, loadingSeen, dataSubscribers, dataCalls, dataCallLog,
               loaderCalls, precomputeRuns, lastReturned, sharedLoad, statsReturned,
               progressLog, received>>

\* the timeline histogram (KDEMap.svelte, binnedTotals / binnedDates)
VARIABLES
    binInput,         \* timelineBinDays, dailyTotals and dates
    binResult         \* Pending, or binnedTotals and binnedDates

binVars == <<binInput, binResult>>

\* aggregateByWeek (kdeService.ts)
VARIABLES
    weekInput,        \* the species and the logger positions
    weekResult        \* Pending, or the WeeklyDetectionData[] returned

weekVars == <<weekInput, weekResult>>

\* renderKDEToCanvas (kdeService.ts)
VARIABLES
    fieldInput,       \* the week's data, the positions, the bounds, the canvas size
    fieldResult       \* Pending, or the density cells and the canvas written

fieldVars == <<fieldInput, fieldResult>>

utilVars == <<binVars, weekVars, fieldVars>>

vars == <<kdeVars, statsVars, storeVars, utilVars>>

\* ------------------------------------------------------- shared vocabulary
NULL == "null"

SpeciesNames == {"s1", "s2"}

Max(a, b) == IF a >= b THEN a ELSE b
Min(a, b) == IF a <= b THEN a ELSE b

\* ==========================================================================
\* Per-species map statistics (dataStore.ts, precomputeMapStats)
\* ==========================================================================

\* A detection series is [numDays, sites]: numDays = timeSeries.dates.length,
\* sites = the entries of timeSeries.sites in Object.keys order, each
\* [name, counts].  An entry of counts is a count, or NullCount for null.
NullCount == 0 - 1

CountValues == (0 .. MaxCount) \cup {NullCount}

RECURSIVE SeqSum(_)
SeqSum(s) == IF s = <<>> THEN 0 ELSE Head(s) + SeqSum(Tail(s))

RECURSIVE SeqMax(_)
\* the largest entry, 0 for the empty sequence (all entries are >= 0)
SeqMax(s) == IF s = <<>> THEN 0 ELSE Max(Head(s), SeqMax(Tail(s)))

RECURSIVE GCD(_, _)
GCD(a, b) == IF b = 0 THEN a ELSE GCD(b, a % b)

Abs(a) == IF a < 0 THEN 0 - a ELSE a

\* JavaScript numbers that are fractions are kept as reduced fractions <<p, q>>
Rat(p, q) ==
    LET g == GCD(Abs(p), q)
    IN <<p \div g, q \div g>>

RatZero == <<0, 1>>

\* Math.max(-1, Math.min(1, r))
RatClampUnit(r) ==
    IF r[1] > r[2] THEN <<1, 1>>
    ELSE IF r[1] < 0 - r[2] THEN <<0 - 1, 1>>
    ELSE r

\* Math.max(0, r)
RatFloorZero(r) == IF r[1] < 0 THEN RatZero ELSE r

\* counts[i] || 0 (i counted from 1)
CountAt(counts, i) == IF counts[i] = NullCount THEN 0 ELSE counts[i]

RECURSIVE SiteValuesOn(_, _)
\* dailySiteValues[d]: the counts pushed for day d, one per site whose series
\* reaches day d, in site order
SiteValuesOn(sites, d) ==
    IF sites = <<>> THEN <<>>
    ELSE (IF Len(Head(sites).counts) >= d
          THEN <<CountAt(Head(sites).counts, d)>> ELSE <<>>)
         \o SiteValuesOn(Tail(sites), d)

RECURSIVE InsertSorted(_, _)
InsertSorted(v, s) ==
    IF s = <<>> THEN <<v>>
    ELSE IF v <= Head(s) THEN <<v>> \o s
    ELSE <<Head(s)>> \o InsertSorted(v, Tail(s))

RECURSIVE SortAscending(_)
\* [...values].sort((a, b) => a - b)
SortAscending(s) ==
    IF s = <<>> THEN <<>> ELSE InsertSorted(Head(s), SortAscending(Tail(s)))

RECURSIVE RankWeightedSum(_, _)
\* numerator += (j + 1) * sorted[j], with j + 1 starting at rank
RankWeightedSum(sorted, rank) ==
    IF sorted = <<>> THEN 0
    ELSE rank * Head(sorted) + RankWeightedSum(Tail(sorted), rank + 1)

\* mutant of Gini: the offset (n + 1) / n taken as 1
GiniUnitOffset(values, totalDetections) ==
    IF totalDetections > 0
    THEN LET n == Len(values)
             numerator == RankWeightedSum(SortAscending(values), 1)
         IN RatFloorZero(Rat(2 * numerator - n * totalDetections,
                             n * totalDetections))
    ELSE RatZero

\* dailyClustering[i] from dailySiteValues[i] and dailyTotals[i]
Gini(values, totalDetections) ==
    IF totalDetections > 0
    THEN LET n == Len(values)
             numerator == RankWeightedSum(SortAscending(values), 1)
         IN RatFloorZero(Rat(2 * numerator - (n + 1) * totalDetections,
                             n * totalDetections))
    ELSE RatZero

windowSize == 7

\* mutant of Trend: the window also takes in day i itself
TrendWindowShifted(dailyTotals, i) ==
    IF i <= windowSize THEN RatZero
    ELSE LET windowSum == SeqSum(SubSeq(dailyTotals, i - windowSize + 1, i))
         IN IF windowSum > 0
            THEN RatClampUnit(Rat(windowSize * dailyTotals[i] - windowSum, windowSum))
            ELSE RatZero

\* dailyTrends[i] (i counted from 1): change against the mean of the
\* windowSize days before day i
Trend(dailyTotals, i) ==
    IF i <= windowSize THEN RatZero
    ELSE LET windowSum == SeqSum(SubSeq(dailyTotals, i - windowSize, i - 1))
         IN IF windowSum > 0
            THEN RatClampUnit(Rat(windowSize * dailyTotals[i] - windowSum, windowSum))
            ELSE RatZero

RECURSIVE RunningSumsBefore(_, _)
\* mutant of RunningSums: the entry is stored before the day is added
RunningSumsBefore(totals, runningSum) ==
    IF totals = <<>> THEN <<>>
    ELSE <<runningSum>> \o RunningSumsBefore(Tail(totals), runningSum + Head(totals))

RECURSIVE RunningSums(_, _)
\* runningSum += dailyTotals[i]; cumulativeTotal[i] = runningSum
RunningSums(totals, runningSum) ==
    IF totals = <<>> THEN <<>>
    ELSE <<runningSum + Head(totals)>>
         \o RunningSums(Tail(totals), runningSum + Head(totals))

\* mutant of ActiveOn: a logger counts as active whatever it reports
ActiveOnAnyCount(values) == Len(values)

\* activeSiteCounts[i]: incremented for every count > 0 pushed for the day
ActiveOn(values) == Cardinality({k \in 1 .. Len(values) : values[k] > 0})

\* the single pass indexes dailySiteValues[i] for every i < counts.length;
\* for i >= numDays that entry is undefined and .push throws a TypeError
PassThrows(ts) ==
    \E s \in 1 .. Len(ts.sites) : Len(ts.sites[s].counts) > ts.numDays

\* Counts are JavaScript numbers.  A series holds whole detections, or, when
\* it carries the field perOne, counts in 1/perOne of a detection, so that
\* counts below 1 occur; CountOne is the number 1 in the units of the series.
CountOne(ts) == IF "perOne" \in DOMAIN ts THEN ts.perOne ELSE 1

\* the SpeciesMapStats object precomputeMapStats builds for one species
StatsOf(ts) ==
    LET days == 1 .. ts.numDays
        valuesOn == [d \in days |-> SiteValuesOn(ts.sites, d)]
        dailyTotals == [d \in days |-> SeqSum(valuesOn[d])]
        rawMax == SeqMax([d \in days |-> SeqMax(valuesOn[d])])
    IN [ \* globalMax || 1
         globalMax |-> IF rawMax = 0 THEN CountOne(ts) ELSE rawMax,
         dailyTotals |-> dailyTotals,
         \* Math.max(...dailyTotals, 1)
         maxDailyTotal |-> Max(SeqMax(dailyTotals), CountOne(ts)),
         dailyTrends |-> [d \in days |-> Trend(dailyTotals, d)],
         dailyClustering |-> [d \in days |-> Gini(valuesOn[d], dailyTotals[d])],
         cumulativeTotal |-> RunningSums(dailyTotals, 0),
         activeSiteCounts |-> [d \in days |-> ActiveOn(valuesOn[d])],
         totalActiveSites |->
            Cardinality({s \in 1 .. Len(ts.sites) :
                \E d \in 1 .. Len(ts.sites[s].counts) :
                    CountAt(ts.sites[s].counts, d) > 0}) ]

NoStats == [threw |-> TRUE]

\* the outcome of the loop body of precomputeMapStats for one species:
\* the stats object, or the TypeError
MapStatsResult(ts) ==
    IF PassThrows(ts) THEN NoStats
    ELSE [threw |-> FALSE, stats |-> StatsOf(ts)]

\* ------------------------------------------------- precomputeMapStats applied

StatsPending == [pending |-> TRUE]

EmptySeries == [numDays |-> 0, sites |-> <<>>]

\* series of logger "a": any entries, one day short of dates up to one day long
RaggedSeries(n) ==
    UNION {[1 .. len -> CountValues] : len \in Max(0, n - 1) .. (n + 1)}

\* series of logger "b": as long as dates, no entry missing
AlignedSeries(n) == [1 .. n -> 0 .. MaxCount]

\* one logger, three days, active on the second only
SingleActiveLogger ==
    [numDays |-> 3, sites |-> <<[name |-> "a", counts |-> <<0, 10, 0>>]>>]

\* daily totals on which the trend moves: nothing, a level, half as much again
TrendCounts == {0, 10, 15}

\* a species no logger reports for, one with logger "a", one with "a" and "b"
NoLoggers(n) == [numDays |-> n, sites |-> <<>>]
OneLogger(n, ca) == [numDays |-> n, sites |-> <<[name |-> "a", counts |-> ca]>>]
TwoLoggers(n, ca, cb) ==
    [numDays |-> n,
     sites |-> <<[name |-> "a", counts |-> ca], [name |-> "b", counts |-> cb]>>]
\* the same series with its counts read as halves of a detection
InHalves(ts) == [numDays |-> ts.numDays, sites |-> ts.sites, perOne |-> 2]

StatsIdle ==
    /\ statsInput = EmptySeries
    /\ statsResult = StatsPending

\* the series precomputeMapStats is applied to: up to StatsDays days with the
\* series of "a" ragged, the single active logger, TrendDays days of one
\* logger, and one logger with counts in halves
StatsInit ==
    /\ \/ \E n \in 0 .. StatsDays : statsInput = NoLoggers(n)
       \/ \E n \in 0 .. StatsDays : \E ca \in RaggedSeries(n) :
            statsInput = OneLogger(n, ca)
       \/ \E n \in 0 .. StatsDays : \E ca \in RaggedSeries(n), cb \in AlignedSeries(n) :
            statsInput = TwoLoggers(n, ca, cb)
       \/ statsInput = SingleActiveLogger
       \/ \E ca \in [1 .. TrendDays -> TrendCounts] :
            statsInput = OneLogger(TrendDays, ca)
       \/ \E n \in 0 .. StatsDays : \E ca \in AlignedSeries(n) :
            statsInput = InHalves(OneLogger(n, ca))
    /\ statsResult = StatsPending

\* the body of the for-loop of precomputeMapStats, for one species
Precompute ==
    /\ statsResult = StatsPending
    /\ statsResult' = MapStatsResult(statsInput)
    /\ UNCHANGED statsInput
    /\ UNCHANGED <<kdeVars, storeVars, utilVars>>

\* ==========================================================================
\* Timeline histogram bins (KDEMap.svelte, binnedTotals / binnedDates)
\* ==========================================================================

\* timelineBinDays is kept in halves of a day, so that 1.5 is 3
\* Math.max(1, Math.floor(timelineBinDays))
BinSize(halves) == Max(1, halves \div 2)

RECURSIVE InnerSum(_, _, _, _)
\* for (j = 0; j < size && i + j < length; j++) sum += dailyTotals[i + j] || 0
\* (i counted from 1)
InnerSum(totals, i, j, size) ==
    IF j < size /\ i + j <= Len(totals)
    THEN totals[i + j] + InnerSum(totals, i, j + 1, size)
    ELSE 0

RECURSIVE BinsFromWholeOnly(_, _, _)
\* mutant of BinsFrom: the loop stops before a bin that is not full
BinsFromWholeOnly(totals, i, size) ==
    IF i + size - 1 > Len(totals) THEN <<>>
    ELSE <<InnerSum(totals, i, 0, size)>> \o BinsFromWholeOnly(totals, i + size, size)

RECURSIVE BinsFrom(_, _, _)
\* for (i = 0; i < dailyTotals.length; i += size) bins.push(sum)
BinsFrom(totals, i, size) ==
    IF i > Len(totals) THEN <<>>
    ELSE <<InnerSum(totals, i, 0, size)>> \o BinsFrom(totals, i + size, size)

binnedTotals(halves, totals) ==
    IF Len(totals) = 0 THEN <<>> ELSE BinsFrom(totals, 1, BinSize(halves))

RECURSIVE DatesFrom(_, _, _)
\* for (i = 0; i < dates.length; i += size) out.push(dates[i])
DatesFrom(dates, i, size) ==
    IF i > Len(dates) THEN <<>>
    ELSE <<dates[i]>> \o DatesFrom(dates, i + size, size)

binnedDates(halves, dates) ==
    IF Len(dates) = 0 THEN <<>> ELSE DatesFrom(dates, 1, BinSize(halves))

\* the value of a result before the function has run
Pending == [pending |-> TRUE]

\* the histogram, aggregateByWeek and renderKDEToCanvas not in use
BinIdle ==
    /\ binInput = [timelineBinDays |-> 2, dailyTotals |-> <<>>, dates |-> <<>>]
    /\ binResult = Pending
WeekIdle ==
    /\ weekInput = [dates |-> <<>>, sites |-> <<>>, positioned |-> {}]
    /\ weekResult = Pending
FieldIdle ==
    /\ fieldInput = [loggers |-> <<>>]
    /\ fieldResult = Pending

\* the dates of a series of n days, as day numbers
DatesOf(n) == [d \in 1 .. n |-> 100 + d]

\* bin sizes from below 0 to beyond the longest series, in halves of a day
BinSizes == (0 - 2) .. (2 * BinDays + 3)

\* every series of up to BinDays daily totals, and the totals 1 to BinDays
BinInit ==
    /\ \E halves \in BinSizes, n \in 0 .. BinDays :
          \/ \E totals \in [1 .. n -> 0 .. MaxCount] :
                binInput = [timelineBinDays |-> halves, dailyTotals |-> totals,
                            dates |-> DatesOf(n)]
          \/ binInput = [timelineBinDays |-> halves,
                         dailyTotals |-> [d \in 1 .. n |-> d],
                         dates |-> DatesOf(n)]
    /\ binResult = Pending

\* the derived values binnedTotals and binnedDates are evaluated
Bin ==
    /\ binResult = Pending
    /\ binResult' =
          [totals |-> binnedTotals(binInput.timelineBinDays, binInput.dailyTotals),
           dates |-> binnedDates(binInput.timelineBinDays, binInput.dates)]
    /\ UNCHANGED <<binInput, weekVars, fieldVars>>
    /\ UNCHANGED <<kdeVars, statsVars, storeVars>>

\* ==========================================================================
\* Weekly aggregation (kdeService.ts, aggregateByWeek)
\* ==========================================================================

\* A date is the number of its UTC day, day 0 being Thursday 1970-01-01; the
\* dates of the input are date-only strings, which new Date reads as UTC
\* midnight.  weekLabel, a rendering of weekStart, is left out of the records.

\* Date.prototype.getUTCDay: 0 is Sunday
getUTCDay(date) == (date + 4) % 7

\* mutant of getWeekStart: Sunday is not sent back to the Monday before it
getWeekStartSundayForward(date) == date - getUTCDay(date) + 1

\* diff = getUTCDate() - day + (day === 0 ? -6 : 1); setUTCDate(diff)
getWeekStart(date) ==
    date - getUTCDay(date) + (IF getUTCDay(date) = 0 THEN 0 - 6 ELSE 1)

\* values[i] ?? 0 (i counted from 1)
ValueAt(values, i) ==
    IF i > Len(values) \/ values[i] = NullCount THEN 0 ELSE values[i]

\* the entry weeklyMap.set stores for a new week
NewWeek(weekStart) ==
    [weekStart |-> weekStart, weekEnd |-> weekStart + 6, loggers |-> <<>>,
     totalDetections |-> 0, maxLoggerDetections |-> 0]

\* mutant of AddValue: the maximum follows the day's value, not the week's sum
AddValueMaxOfDay(weekData, loggerName, value) ==
    LET current == IF loggerName \in DOMAIN weekData.loggers
                   THEN weekData.loggers[loggerName] ELSE 0
    IN [weekData EXCEPT
          !.loggers = [n \in DOMAIN weekData.loggers \cup {loggerName} |->
                          IF n = loggerName THEN current + value
                          ELSE weekData.loggers[n]],
          !.totalDetections = @ + value,
          !.maxLoggerDetections = Max(@, value)]

\* weekData after one logger's value of day i is added
AddValue(weekData, loggerName, value) ==
    LET current == IF loggerName \in DOMAIN weekData.loggers
                   THEN weekData.loggers[loggerName] ELSE 0
        newValue == current + value
    IN [weekData EXCEPT
          !.loggers = [n \in DOMAIN weekData.loggers \cup {loggerName} |->
                          IF n = loggerName THEN newValue ELSE weekData.loggers[n]],
          !.totalDetections = @ + value,
          !.maxLoggerDetections = Max(@, newValue)]

RECURSIVE AddSitesUnfiltered(_, _, _, _)
\* mutant of AddSites: loggers without a position are added as well
AddSitesUnfiltered(weekData, sites, positioned, i) ==
    IF sites = <<>> THEN weekData
    ELSE AddSitesUnfiltered(
            AddValue(weekData, Head(sites).name, ValueAt(Head(sites).counts, i)),
            Tail(sites), positioned, i)

RECURSIVE AddSites(_, _, _, _)
\* for (const [loggerName, values] of Object.entries(sites)), for day i
AddSites(weekData, sites, positioned, i) ==
    IF sites = <<>> THEN weekData
    ELSE IF Head(sites).name \notin positioned
    THEN AddSites(weekData, Tail(sites), positioned, i)
    ELSE AddSites(
            AddValue(weekData, Head(sites).name, ValueAt(Head(sites).counts, i)),
            Tail(sites), positioned, i)

RECURSIVE AggregateFrom(_, _, _)
\* the loop over dates from day i on; weeklyMap holds the weeks in the order
\* in which they were first met
AggregateFrom(input, i, weeklyMap) ==
    IF i > Len(input.dates) THEN weeklyMap
    ELSE LET weekStart == getWeekStart(input.dates[i])
             withWeek ==
                IF \E k \in 1 .. Len(weeklyMap) : weeklyMap[k].weekStart = weekStart
                THEN weeklyMap
                ELSE Append(weeklyMap, NewWeek(weekStart))
             at == CHOOSE k \in 1 .. Len(withWeek) : withWeek[k].weekStart = weekStart
         IN AggregateFrom(input, i + 1,
                [withWeek EXCEPT
                    ![at] = AddSites(@, input.sites, input.positioned, i)])

RECURSIVE InsertWeek(_, _)
InsertWeek(week, sorted) ==
    IF sorted = <<>> THEN <<week>>
    ELSE IF week.weekStart < Head(sorted).weekStart THEN <<week>> \o sorted
    ELSE <<Head(sorted)>> \o InsertWeek(week, Tail(sorted))

RECURSIVE SortByWeekStart(_)
\* sort((a, b) => a.weekStart.getTime() - b.weekStart.getTime())
SortByWeekStart(weeks) ==
    IF weeks = <<>> THEN <<>>
    ELSE InsertWeek(weeks[Len(weeks)], SortByWeekStart(SubSeq(weeks, 1, Len(weeks) - 1)))

aggregateByWeek(input) == SortByWeekStart(AggregateFrom(input, 1, <<>>))

\* the days the dates are drawn from: a Sunday, the Monday after it, a
\* Thursday, and the following Sunday and Monday
WeekDates == {3, 4, 7, 10, 11}

\* the series of logger "a": entries missing, one day short, one day long
SeriesShapes(n) ==
    UNION {{ca, SubSeq(ca, 1, n - 1), Append(ca, MaxCount)} : ca \in [1 .. n -> CountValues]}

\* up to StatsDays dates in any order, logger "a" with a ragged series, logger
\* "b" reporting MaxCount every day, and any of them positioned
WeekInit ==
    /\ \E n \in 0 .. StatsDays :
          \E dates \in [1 .. n -> WeekDates], ca \in SeriesShapes(n),
             positioned \in SUBSET {"a", "b"} :
                weekInput =
                    [dates |-> dates,
                     sites |-> <<[name |-> "a", counts |-> ca],
                                 [name |-> "b", counts |-> [d \in 1 .. n |-> MaxCount]]>>,
                     positioned |-> positioned]
    /\ weekResult = Pending

\* a call of aggregateByWeek(species, loggerPositions)
AggregateByWeek ==
    /\ weekResult = Pending
    /\ weekResult' = [weeks |-> aggregateByWeek(weekInput)]
    /\ UNCHANGED <<weekInput, binVars, fieldVars>>
    /\ UNCHANGED <<kdeVars, statsVars, storeVars>>

\* ==========================================================================
\* Density field (kdeService.ts, renderKDEToCanvas)
\* ==========================================================================

\* A JavaScript number is a finite value p / q in lowest terms, NaN, or an
\* infinity (p its sign).
Fin(p, q) == [k |-> "fin", p |-> Rat(p, q)[1], q |-> Rat(p, q)[2]]
NaN == [k |-> "nan", p |-> 0, q |-> 1]
Infinity(sign) == [k |-> "inf", p |-> sign, q |-> 1]

Sign(a) == IF a.p > 0 THEN 1 ELSE IF a.p < 0 THEN 0 - 1 ELSE 0

\* a + b, a * b and a / b as IEEE 754 defines them outside the finite values
Arith(op, a, b) ==
    IF a.k = "nan" \/ b.k = "nan" THEN NaN
    ELSE IF op = "+" THEN
        IF a.k = "inf" /\ b.k = "inf" THEN (IF a.p = b.p THEN a ELSE NaN)
        ELSE IF a.k = "inf" THEN a
        ELSE IF b.k = "inf" THEN b
        ELSE Fin(a.p * b.q + b.p * a.q, a.q * b.q)
    ELSE IF op = "*" THEN
        IF a.k = "inf" \/ b.k = "inf"
        THEN (IF Sign(a) * Sign(b) = 0 THEN NaN ELSE Infinity(Sign(a) * Sign(b)))
        ELSE Fin(a.p * b.p, a.q * b.q)
    ELSE \* op = "/"
        IF a.k = "inf" /\ b.k = "inf" THEN NaN
        ELSE IF a.k = "inf" THEN Infinity(IF Sign(b) < 0 THEN 0 - a.p ELSE a.p)
        ELSE IF b.k = "inf" THEN Fin(0, 1)
        ELSE IF b.p = 0 THEN (IF a.p = 0 THEN NaN ELSE Infinity(Sign(a)))
        ELSE Fin(a.p * b.q * Sign(b), a.q * Abs(b.p))

\* a - b
Minus(a, b) == Arith("+", a, [b EXCEPT !.p = 0 - @])

\* a < b; false when either is NaN
Less(a, b) ==
    /\ a.k # "nan"
    /\ b.k # "nan"
    /\ IF a.k = "inf" THEN a.p < 0 /\ ~(b.k = "inf" /\ b.p < 0)
       ELSE IF b.k = "inf" THEN b.p > 0
       ELSE a.p * b.q < b.p * a.q

\* Math.max(a, b): NaN when either is NaN
MathMax(a, b) ==
    IF a.k = "nan" \/ b.k = "nan" THEN NaN
    ELSE IF Less(a, b) THEN b ELSE a

\* Math.min(...values) and Math.max(...values) of finite values
RECURSIVE LeastOf(_)
LeastOf(values) ==
    IF Len(values) = 1 THEN values[1]
    ELSE LET rest == LeastOf(Tail(values))
         IN IF Less(rest, Head(values)) THEN rest ELSE Head(values)

RECURSIVE GreatestOf(_)
GreatestOf(values) ==
    IF Len(values) = 1 THEN values[1]
    ELSE MathMax(Head(values), GreatestOf(Tail(values)))

\* getMapBounds(loggerPositions, padding), for a non-empty position list
getMapBounds(positions, padding) ==
    LET lats == [i \in 1 .. Len(positions) |-> positions[i].latitude]
        lons == [i \in 1 .. Len(positions) |-> positions[i].longitude]
        latPadding == Arith("*", Minus(GreatestOf(lats), LeastOf(lats)), padding)
        lonPadding == Arith("*", Minus(GreatestOf(lons), LeastOf(lons)), padding)
    IN [minLat |-> Minus(LeastOf(lats), latPadding),
        maxLat |-> Arith("+", GreatestOf(lats), latPadding),
        minLon |-> Minus(LeastOf(lons), lonPadding),
        maxLon |-> Arith("+", GreatestOf(lons), lonPadding)]

\* Math.exp(-t) to three decimals, for t = distSq / bw2 >= 0
MathExpNeg(t) ==
    IF t.k = "nan" THEN NaN
    ELSE IF t.k = "inf" THEN Fin(0, 1)
    ELSE IF t.p = 0 THEN Fin(1, 1)
    ELSE IF 4 * t.p <= t.q THEN Fin(779, 1000)
    ELSE IF 2 * t.p <= t.q THEN Fin(607, 1000)
    ELSE IF t.p <= t.q THEN Fin(368, 1000)
    ELSE IF t.p <= 2 * t.q THEN Fin(135, 1000)
    ELSE IF t.p <= 4 * t.q THEN Fin(18, 1000)
    ELSE Fin(1, 1000)

\* the fractional digits a Float32Array cell keeps, as a power of two
FloatGrid == 16

\* the value a Float32Array cell holds after a number is stored in it
Fround(a) ==
    IF a.k # "fin" THEN a
    ELSE Fin((2 * a.p * FloatGrid + a.q) \div (2 * a.q), FloatGrid)

\* mutant of Weight: the detections are not divided by the week's maximum
WeightUnnormalized(detections, maxLoggerDetections) == Fin(detections, 1)

\* detections / (weekData.maxLoggerDetections || 1)
Weight(detections, maxLoggerDetections) ==
    Fin(detections, IF maxLoggerDetections = 0 THEN 1 ELSE maxLoggerDetections)

\* the position of a logger, <<>> if loggerPositions has none
PositionOf(positions, loggerName) ==
    LET at == {i \in 1 .. Len(positions) : positions[i].name = loggerName}
    IN IF at = {} THEN <<>> ELSE <<positions[CHOOSE i \in at : TRUE]>>

RECURSIVE LoggerScreenPos(_, _)
\* the sources of the frame: every logger of weekData.loggers with detections
\* and a position, at its screen coordinates
LoggerScreenPos(input, entries) ==
    IF entries = <<>> THEN <<>>
    ELSE LET pos == PositionOf(input.positions, Head(entries).name)
             b == input.bounds
         IN (IF Head(entries).detections = 0 \/ pos = <<>> THEN <<>>
             ELSE <<[x |-> Arith("*",
                            Arith("/", Minus(pos[1].longitude, b.minLon),
                                       Minus(b.maxLon, b.minLon)),
                            Fin(input.width, 1)),
                     y |-> Minus(Fin(input.height, 1),
                            Arith("*",
                                Arith("/", Minus(pos[1].latitude, b.minLat),
                                           Minus(b.maxLat, b.minLat)),
                                Fin(input.height, 1))),
                     weight |-> Weight(Head(entries).detections,
                                       input.maxLoggerDetections)]>>)
            \o LoggerScreenPos(input, Tail(entries))

RECURSIVE DensityAt(_, _, _, _)
\* density += logger.weight * Math.exp(-distSq / bw2), over the sources
DensityAt(px, py, sources, bw2) ==
    IF sources = <<>> THEN Fin(0, 1)
    ELSE LET dx == Minus(Fin(px, 1), Head(sources).x)
             dy == Minus(Fin(py, 1), Head(sources).y)
             distSq == Arith("+", Arith("*", dx, dx), Arith("*", dy, dy))
             kernel == MathExpNeg(Arith("/", distSq, Fin(bw2, 1)))
         IN Arith("+", Arith("*", Head(sources).weight, kernel),
                  DensityAt(px, py, Tail(sources), bw2))

RECURSIVE MaxDensity(_, _)
\* maxDensity = Math.max(maxDensity, density), cell after cell
MaxDensity(densities, maxDensity) ==
    IF densities = <<>> THEN maxDensity
    ELSE MaxDensity(Tail(densities), MathMax(maxDensity, Head(densities)))

\* renderKDEToCanvas: the cells of densityData, maxDensity, whether
\* putImageData is reached, and the normalized density handed to colorFunc
\* for every cell
renderKDEToCanvas(input) ==
    LET sources == LoggerScreenPos(input, input.loggers)
        bw2 == input.bandwidth * input.bandwidth * 2
        cells == 1 .. input.width * input.height
        density == [i \in cells |->
            DensityAt((i - 1) % input.width, (i - 1) \div input.width, sources, bw2)]
        maxDensity == MaxDensity(density, Fin(0, 1))
        densityData == [i \in cells |-> Fround(density[i])]
        written == Less(Fin(0, 1), maxDensity)
    IN [densityData |-> densityData,
        maxDensity |-> maxDensity,
        written |-> written,
        normalized |-> IF written
                       THEN [i \in cells |-> Arith("/", densityData[i], maxDensity)]
                       ELSE <<>>]

\* logger "a" alone; "a" and "b" apart in both coordinates; "a" and "b" on
\* one meridian.  Logger "c" of the week's map has no position.
PositionLists ==
    { <<[name |-> "a", latitude |-> Fin(0, 1), longitude |-> Fin(0, 1)]>>,
      <<[name |-> "a", latitude |-> Fin(0, 1), longitude |-> Fin(0, 1)],
        [name |-> "b", latitude |-> Fin(1, 1), longitude |-> Fin(2, 1)]>>,
      <<[name |-> "a", latitude |-> Fin(0, 1), longitude |-> Fin(0, 1)],
        [name |-> "b", latitude |-> Fin(1, 1), longitude |-> Fin(0, 1)]>> }

\* a canvas of FieldWidth x FieldHeight pixels or an empty one, a bandwidth
\* of one pixel, the bounds of the positions without padding and with the
\* default 0.12, and every week of three loggers as aggregateByWeek returns
\* it: the loggers' totals and the largest of them
FieldInit ==
    /\ \E positions \in PositionLists, padding \in {Fin(0, 1), Fin(3, 25)},
          width \in {0, FieldWidth}, da \in 0 .. MaxCount, db \in 0 .. MaxCount,
          dc \in 0 .. MaxCount :
            fieldInput =
                [loggers |-> <<[name |-> "a", detections |-> da],
                               [name |-> "b", detections |-> db],
                               [name |-> "c", detections |-> dc]>>,
                 maxLoggerDetections |-> Max(da, Max(db, dc)),
                 positions |-> positions,
                 bounds |-> getMapBounds(positions, padding),
                 width |-> width,
                 height |-> FieldHeight,
                 bandwidth |-> 1]
    /\ fieldResult = Pending

\* a call of renderKDEToCanvas
RenderKDE ==
    /\ fieldResult = Pending
    /\ fieldResult' = renderKDEToCanvas(fieldInput)
    /\ UNCHANGED <<fieldInput, binVars, weekVars>>
    /\ UNCHANGED <<kdeVars, statsVars, storeVars>>

UtilIdle == BinIdle /\ WeekIdle /\ FieldIdle

\* ==========================================================================
\* Data store (dataStore.ts)
\* ==========================================================================

SeriesOneDay == [numDays |-> 1, sites |-> <<[name |-> "a", counts |-> <<1>>]>>]
SeriesTwoDays ==
    [numDays |-> 2, sites |-> <<[name |-> "a", counts |-> <<0, 2>>],
                                [name |-> "b", counts |-> <<1, 1>>]>>]
\* logger "a" reports one day more than dates holds
SeriesTooLong == [numDays |-> 1, sites |-> <<[name |-> "a", counts |-> <<1, 1>>]>>]

Sp(n, ts) == [name |-> n, timeSeries |-> ts]

\* the species lists the server may hold: none, one, two, two entries under
\* one name, and lists with an over-long logger series
ServerSpeciesLists ==
    { <<>>,
      <<Sp("s1", SeriesOneDay)>>,
      <<Sp("s1", SeriesOneDay), Sp("s2", SeriesTwoDays)>>,
      <<Sp("s1", SeriesOneDay), Sp("s1", SeriesTwoDays)>>,
      <<Sp("s1", SeriesTooLong)>>,
      <<Sp("s1", SeriesTwoDays), Sp("s2", SeriesTooLong)>> }

LoadingCallbacks == {"l1"}
DataCallbacks == {"d1", "d2"}

\* how a request ends: response.ok, a response that is not ok, or a rejected
\* fetch (network failure, timeout)
Outcomes == {"ok", "notOk", "rejected"}

\* the callback was never handed to subscribeToData, or the function
\* subscribeToData returned for it has run since
NotRegistered == 0 - 1

NoError == [at |-> "none", message |-> NULL]
NoObject == [null |-> TRUE]

IdleLoadingState == [stage |-> "idle", message |-> "Initializing...",
                     progress |-> 0, error |-> NULL]

EmptyAppData ==
    [speciesData |-> NULL, loggerPositions |-> "empty", birdData |-> NULL,
     ndviData |-> NULL, weatherData |-> NULL, imagesLoaded |-> FALSE,
     speciesMapStats |-> <<>>, perimeterCoordinates |-> NULL]

\* the state declarations of dataStore.ts, as the module is imported
StoreDeclared ==
    /\ loadingState = IdleLoadingState
    /\ appData = EmptyAppData
    /\ loadPromise = [id |-> 0, status |-> "none"]
    /\ pc = "idle"
    /\ thrown = NoError
    /\ subscribers = {}
    /\ loadingSeen = [cb \in LoadingCallbacks |-> "none"]
    /\ dataSubscribers = {}
    /\ dataCalls = [cb \in DataCallbacks |-> 0]
    /\ dataCallLog = {}
    /\ loaderCalls = 0
    /\ precomputeRuns = 0
    /\ lastReturned = 0
    /\ sharedLoad = {}
    /\ statsReturned = [n \in SpeciesNames |-> {}]
    /\ progressLog = <<>>
    /\ received = [cb \in DataCallbacks |-> NotRegistered]

StoreIdle ==
    /\ serverSpecies = <<>>
    /\ StoreDeclared

StoreInit ==
    /\ serverSpecies \in ServerSpeciesLists
    /\ StoreDeclared

\* updateProgress: the new loadingState
Progress(stage, message, progress, error) ==
    [stage |-> stage, message |-> message, progress |-> progress, error |-> error]

\* mutant of NotifyLoading: the 'error' state is not announced
NotifyLoadingButError(stage) ==
    [cb \in LoadingCallbacks |->
        IF cb \in subscribers /\ stage # "error" THEN stage ELSE loadingSeen[cb]]

\* notifyLoadingSubscribers: every registered callback is called with the state
NotifyLoading(stage) ==
    [cb \in LoadingCallbacks |->
        IF cb \in subscribers THEN stage ELSE loadingSeen[cb]]

\* what a data callback is handed: appData as it stands at the call
DataSnapshot(stage, data) ==
    [stage |-> stage,
     speciesData |-> data.speciesData,
     loggerPositions |-> data.loggerPositions,
     statsFor |-> DOMAIN data.speciesMapStats]

\* precomputeMapStats throws when the pass over some species throws
PrecomputeThrows(list) ==
    \E i \in 1 .. Len(list) : PassThrows(list[i].timeSeries)

\* statsMap after the loop: statsMap.set(sp.name, ...) keeps, for each name,
\* the object built for the last entry of that name.  An object is
\* [id, stats]; id = <<run, i>> tells the objects built apart.
PrecomputeMapStats(list, run) ==
    [n \in {list[i].name : i \in 1 .. Len(list)} |->
        LET last == CHOOSE i \in 1 .. Len(list) :
                        /\ list[i].name = n
                        /\ \A j \in (i + 1) .. Len(list) : list[j].name # n
        IN [id |-> <<run, last>>, stats |-> StatsOf(list[last].timeSeries)]]

\* appData.speciesMapStats.get(speciesName) || null
StatsLookup(data, name) ==
    IF name \in DOMAIN data.speciesMapStats
    THEN data.speciesMapStats[name] ELSE NoObject

\* the message of the error a failed request throws
ErrorMessage(what, outcome) ==
    IF outcome = "notOk" THEN "Failed to load " \o what ELSE "Failed to fetch"

\* mutant of CatchError: the failed promise is dropped, so a later call retries
CatchErrorAndReset(at, message) ==
    /\ loadingState' = Progress("error", "Failed to load data", 0, message)
    /\ loadingSeen' = NotifyLoading("error")
    /\ loadPromise' = [id |-> loadPromise.id, status |-> "none"]
    /\ pc' = "failed"
    /\ thrown' = [at |-> at, message |-> message]
    /\ progressLog' = Append(progressLog, <<"error", 0>>)

\* the catch block of loadAllData: report the error, reject the promise
CatchError(at, message) ==
    /\ loadingState' = Progress("error", "Failed to load data", 0, message)
    /\ loadingSeen' = NotifyLoading("error")
    /\ loadPromise' = [loadPromise EXCEPT !.status = "rejected"]
    /\ pc' = "failed"
    /\ thrown' = [at |-> at, message |-> message]
    /\ progressLog' = Append(progressLog, <<"error", 0>>)

\* the body moves on to its next await
Proceed(stage, message, progress, nextPc) ==
    /\ loadingState' = Progress(stage, message, progress, NULL)
    /\ loadingSeen' = NotifyLoading(stage)
    /\ pc' = nextPc
    /\ loaderCalls' = loaderCalls + 1
    /\ progressLog' = Append(progressLog, <<stage, progress>>)
    /\ UNCHANGED <<loadPromise, thrown>>

\* mutant of LoadAllData: the check for a load in progress is missing
LoadAllDataUnguarded ==
    /\ loadPromise' = [id |-> loadPromise.id + 1, status |-> "pending"]
    /\ lastReturned' = loadPromise.id + 1
    /\ loadingState' = Progress("species", "Loading detection data...", 10, NULL)
    /\ loadingSeen' = NotifyLoading("species")
    /\ pc' = "species"
    /\ loaderCalls' = loaderCalls + 1
    /\ progressLog' = Append(progressLog, <<"species", 10>>)
    /\ UNCHANGED <<serverSpecies, appData, thrown, subscribers, dataSubscribers,
                   dataCalls, dataCallLog, precomputeRuns, sharedLoad, statsReturned,
                   received>>
    /\ UNCHANGED <<kdeVars, statsVars, utilVars>>

\* a call of loadAllData: the existing promise, or a new load that runs up to
\* its first await
LoadAllData ==
    /\ IF loadPromise.status # "none"
       THEN /\ lastReturned' = loadPromise.id
            /\ sharedLoad' = sharedLoad \cup {loadPromise.status}
            /\ UNCHANGED <<loadingState, loadingSeen, loadPromise, pc, loaderCalls,
                           progressLog>>
       ELSE /\ loadPromise' = [id |-> loadPromise.id + 1, status |-> "pending"]
            /\ lastReturned' = loadPromise.id + 1
            /\ loadingState' = Progress("species", "Loading detection data...", 10, NULL)
            /\ loadingSeen' = NotifyLoading("species")
            /\ pc' = "species"
            /\ loaderCalls' = loaderCalls + 1
            /\ progressLog' = Append(progressLog, <<"species", 10>>)
            /\ UNCHANGED sharedLoad
    /\ UNCHANGED <<serverSpecies, appData, thrown, subscribers, dataSubscribers,
                   dataCalls, dataCallLog, precomputeRuns, statsReturned, received>>
    /\ UNCHANGED <<kdeVars, statsVars, utilVars>>

\* what no step of the load changes
LoadFrame ==
    /\ UNCHANGED <<serverSpecies, subscribers, dataSubscribers, lastReturned,
                   sharedLoad, statsReturned>>
    /\ UNCHANGED <<kdeVars, statsVars, utilVars>>

\* await loadSpeciesData() settles
ResolveSpecies(outcome) ==
    /\ pc = "species"
    /\ IF outcome = "ok"
       THEN /\ appData' = [appData EXCEPT !.speciesData = "SpeciesData"]
            /\ Proceed("loggers", "Loading sensor network...", 30, "loggers")
       ELSE /\ CatchError("species", ErrorMessage("species data", outcome))
            /\ UNCHANGED <<appData, loaderCalls>>
    /\ UNCHANGED <<dataCalls, dataCallLog, precomputeRuns, received>>
    /\ LoadFrame

\* await loadLoggerPositions() settles
ResolveLoggers(outcome) ==
    /\ pc = "loggers"
    /\ IF outcome = "ok"
       THEN /\ appData' = [appData EXCEPT !.loggerPositions = "positions"]
            /\ Proceed("loggers", "Loading study area boundary...", 35, "perimeter")
       ELSE /\ CatchError("loggers", ErrorMessage("logger positions", outcome))
            /\ UNCHANGED <<appData, loaderCalls>>
    /\ UNCHANGED <<dataCalls, dataCallLog, precomputeRuns, received>>
    /\ LoadFrame

\* await loadPerimeterCoordinates() settles: it catches its own errors
ResolvePerimeter(outcome) ==
    /\ pc = "perimeter"
    /\ appData' = [appData EXCEPT !.perimeterCoordinates =
                        IF outcome = "ok" THEN "rings" ELSE NULL]
    /\ Proceed("birds", "Loading species info...", 45, "birds")
    /\ UNCHANGED <<dataCalls, dataCallLog, precomputeRuns, received>>
    /\ LoadFrame

\* await loadBirdData() settles
ResolveBirds(outcome) ==
    /\ pc = "birds"
    /\ IF outcome = "ok"
       THEN /\ appData' = [appData EXCEPT !.birdData = "birds"]
            /\ Proceed("ndvi", "Processing vegetation data...", 55, "ndvi")
       ELSE /\ CatchError("birds", ErrorMessage("bird data", outcome))
            /\ UNCHANGED <<appData, loaderCalls>>
    /\ UNCHANGED <<dataCalls, dataCallLog, precomputeRuns, received>>
    /\ LoadFrame

\* await loadNdviData() settles; on success the body announces 'processing',
\* runs precomputeMapStats, announces 'weather' and calls loadWeatherData
ResolveNdvi(outcome) ==
    /\ pc = "ndvi"
    /\ IF outcome # "ok"
       THEN /\ CatchError("ndvi", ErrorMessage("NDVI data", outcome))
            /\ UNCHANGED <<appData, loaderCalls, precomputeRuns>>
       ELSE /\ precomputeRuns' = precomputeRuns + 1
            /\ IF PrecomputeThrows(serverSpecies)
               THEN /\ loadingState' = Progress("error", "Failed to load data", 0, "TypeError")
                    /\ loadingSeen' = NotifyLoading("error")
                    /\ loadPromise' = [loadPromise EXCEPT !.status = "rejected"]
                    /\ pc' = "failed"
                    /\ thrown' = [at |-> "processing", message |-> "TypeError"]
                    /\ progressLog' = progressLog \o <<<<"processing", 65>>, <<"error", 0>>>>
                    /\ appData' = [appData EXCEPT !.ndviData = "ndvi"]
                    /\ UNCHANGED loaderCalls
               ELSE /\ appData' = [appData EXCEPT
                            !.ndviData = "ndvi",
                            !.speciesMapStats =
                                PrecomputeMapStats(serverSpecies, precomputeRuns + 1)]
                    /\ loadingState' = Progress("weather", "Fetching weather history...", 80, NULL)
                    /\ loadingSeen' = NotifyLoading("weather")
                    /\ pc' = "weather"
                    /\ loaderCalls' = loaderCalls + 1
                    /\ progressLog' = progressLog \o <<<<"processing", 65>>, <<"weather", 80>>>>
                    /\ UNCHANGED <<loadPromise, thrown>>
    /\ UNCHANGED <<dataCalls, dataCallLog, received>>
    /\ LoadFrame

\* await loadWeatherData() settles: it catches its own errors
ResolveWeather(outcome) ==
    /\ pc = "weather"
    /\ appData' = [appData EXCEPT !.weatherData =
                        IF outcome = "ok" THEN "weather" ELSE NULL]
    /\ Proceed("images", "Loading illustrations...", 92, "images")
    /\ UNCHANGED <<dataCalls, dataCallLog, precomputeRuns, received>>
    /\ LoadFrame

\* await preloadImages() settles (onload and onerror both resolve); the body
\* announces 'complete', notifies the data subscribers and returns appData
ResolveImages(outcome) ==
    /\ pc = "images"
    /\ appData' = [appData EXCEPT !.imagesLoaded = TRUE]
    /\ loadingState' = Progress("complete", "Ready", 100, NULL)
    /\ loadingSeen' = NotifyLoading("complete")
    /\ dataCalls' = [cb \in DataCallbacks |->
                        IF cb \in dataSubscribers THEN dataCalls[cb] + 1
                        ELSE dataCalls[cb]]
    /\ dataCallLog' = IF dataSubscribers = {} THEN dataCallLog
                      ELSE dataCallLog \cup {DataSnapshot("complete", appData')}
    /\ received' = [cb \in DataCallbacks |->
                        IF cb \in dataSubscribers /\ received[cb] # NotRegistered
                        THEN received[cb] + 1 ELSE received[cb]]
    /\ progressLog' = Append(progressLog, <<"complete", 100>>)
    /\ loadPromise' = [loadPromise EXCEPT !.status = "fulfilled"]
    /\ pc' = "done"
    /\ UNCHANGED <<thrown, loaderCalls, precomputeRuns>>
    /\ LoadFrame

\* what the subscriber functions and getters leave alone
ClientFrame ==
    /\ UNCHANGED <<serverSpecies, loadingState, appData, loadPromise, pc, thrown,
                   loaderCalls, precomputeRuns, lastReturned, sharedLoad, progressLog>>
    /\ UNCHANGED <<kdeVars, statsVars, utilVars>>

\* subscribeToLoading(callback)
SubscribeToLoading(cb) ==
    /\ cb \notin subscribers
    /\ subscribers' = subscribers \cup {cb}
    /\ loadingSeen' = [loadingSeen EXCEPT ![cb] = loadingState.stage]
    /\ UNCHANGED <<dataSubscribers, dataCalls, dataCallLog, statsReturned, received>>
    /\ ClientFrame

\* the function subscribeToLoading returned
UnsubscribeLoading(cb) ==
    /\ cb \in subscribers
    /\ subscribers' = subscribers \ {cb}
    /\ UNCHANGED <<loadingSeen, dataSubscribers, dataCalls, dataCallLog, statsReturned,
                   received>>
    /\ ClientFrame

\* mutant of SubscribeToData: the callback is called whatever the stage
SubscribeToDataEager(cb) ==
    /\ dataCalls[cb] < MaxDataCalls
    /\ dataSubscribers' = dataSubscribers \cup {cb}
    /\ dataCalls' = [dataCalls EXCEPT ![cb] = @ + 1]
    /\ dataCallLog' = dataCallLog \cup {DataSnapshot(loadingState.stage, appData)}
    /\ received' = [received EXCEPT ![cb] = 1]
    /\ UNCHANGED <<subscribers, loadingSeen, statsReturned>>
    /\ ClientFrame

\* subscribeToData(callback), also for a callback that is registered already
SubscribeToData(cb) ==
    /\ dataCalls[cb] < MaxDataCalls
    /\ dataSubscribers' = dataSubscribers \cup {cb}
    /\ IF loadingState.stage = "complete"
       THEN /\ dataCalls' = [dataCalls EXCEPT ![cb] = @ + 1]
            /\ dataCallLog' = dataCallLog \cup {DataSnapshot(loadingState.stage, appData)}
            /\ received' = [received EXCEPT ![cb] = 1]
       ELSE /\ received' = [received EXCEPT ![cb] = 0]
            /\ UNCHANGED <<dataCalls, dataCallLog>>
    /\ UNCHANGED <<subscribers, loadingSeen, statsReturned>>
    /\ ClientFrame

\* mutant of UnsubscribeData: the callback stays in the set
UnsubscribeDataKeeps(cb) ==
    /\ received[cb] # NotRegistered
    /\ received' = [received EXCEPT ![cb] = NotRegistered]
    /\ UNCHANGED <<subscribers, loadingSeen, dataSubscribers, dataCalls, dataCallLog,
                   statsReturned>>
    /\ ClientFrame

\* the function subscribeToData returned (running it again changes nothing)
UnsubscribeData(cb) ==
    /\ received[cb] # NotRegistered
    /\ dataSubscribers' = dataSubscribers \ {cb}
    /\ received' = [received EXCEPT ![cb] = NotRegistered]
    /\ UNCHANGED <<subscribers, loadingSeen, dataCalls, dataCallLog, statsReturned>>
    /\ ClientFrame

\* a call of getSpeciesMapStats(name); the object returned is recorded
GetSpeciesMapStats(name) ==
    /\ statsReturned' = [statsReturned EXCEPT ![name] =
            IF StatsLookup(appData, name) = NoObject THEN @
            ELSE @ \cup {StatsLookup(appData, name).id}]
    /\ UNCHANGED <<subscribers, loadingSeen, dataSubscribers, dataCalls, dataCallLog,
                   received>>
    /\ ClientFrame

StoreNext ==
    \/ LoadAllData
    \/ \E o \in Outcomes : ResolveSpecies(o)
    \/ \E o \in Outcomes : ResolveLoggers(o)
    \/ \E o \in Outcomes : ResolvePerimeter(o)
    \/ \E o \in Outcomes : ResolveBirds(o)
    \/ \E o \in Outcomes : ResolveNdvi(o)
    \/ \E o \in Outcomes : ResolveWeather(o)
    \/ \E o \in Outcomes : ResolveImages(o)
    \/ \E cb \in LoadingCallbacks : SubscribeToLoading(cb)
    \/ \E cb \in LoadingCallbacks : UnsubscribeLoading(cb)
    \/ \E cb \in DataCallbacks : SubscribeToData(cb)
    \/ \E cb \in DataCallbacks : UnsubscribeData(cb)
    \/ \E n \in SpeciesNames : GetSpeciesMapStats(n)

\* ==========================================================================
\* Playback controller (KDEMap.svelte)
\* ==========================================================================

\* currentIndex is a JavaScript number holding fractions of a day.  The model
\* keeps it as an integer count of 1/Unit days; Unit is chosen so that both
\* PLAY_SPEED (1.5 days) and every seek target ratio * maxIndex are exact.
Unit == 2 * TrackWidth

FRAME_INTERVAL == 80
PLAY_SPEED == (3 * Unit) \div 2

\* time between two animation frames, in ms
FrameDeltas == {40, 80}

\* pointer offsets e.clientX - rect.left a mouse event can carry
PointerXs == (0 - 1) .. (TrackWidth + 1)
\* MouseEvent.buttons values: none, primary, secondary, primary+secondary
Buttons == {0, 1, 2, 3}

SpeciesEntries == [name : SpeciesNames, numDays : 0 .. MaxDays]
\* the species prop: the loaded species list (possibly empty)
SpeciesProps ==
    {<<>>} \cup {<<a, b>> : a \in {e \in SpeciesEntries : e.name = "s1"},
                            b \in {e \in SpeciesEntries : e.name = "s2"}}

\* species.find((s) => s.name === name): index of the first match, 0 if none
FindSpecies(list, name) ==
    IF \E i \in 1 .. Len(list) : list[i].name = name
    THEN CHOOSE i \in 1 .. Len(list) :
            /\ list[i].name = name
            /\ \A j \in 1 .. (i - 1) : list[j].name # name
    ELSE 0

\* currentSpecies as an index into species; 0 stands for undefined
CurrentSpeciesOf(list, sel) ==
    IF sel # NULL THEN FindSpecies(list, sel)
    ELSE IF Len(list) > 0 THEN 1 ELSE 0

currentSpecies == CurrentSpeciesOf(species, selectedSpecies)

\* dates.length of currentSpecies?.timeSeries.dates || []
DatesLength(list, sel) ==
    IF CurrentSpeciesOf(list, sel) = 0 THEN 0
    ELSE list[CurrentSpeciesOf(list, sel)].numDays

\* maxIndex in whole days
MaxIndexOf(list, sel) == Max(0, DatesLength(list, sel) - 1)

maxIndex == MaxIndexOf(species, selectedSpecies)

\* $derived((currentIndex / maxIndex) * 100), the left: ...% of the playhead
timelineProgress ==
    Arith("*", Arith("/", Fin(currentIndex, Unit), Fin(maxIndex, 1)), Fin(100, 1))

\* mutant of Advance: playback stops at the end instead of looping
AdvanceClampAtEnd(idx, maxIdx) ==
    IF idx + PLAY_SPEED >= maxIdx * Unit THEN maxIdx * Unit ELSE idx + PLAY_SPEED

\* the advance of one due animation tick: currentIndex += PLAY_SPEED, wrap to 0
Advance(idx, maxIdx) ==
    IF idx + PLAY_SPEED >= maxIdx * Unit THEN 0 ELSE idx + PLAY_SPEED

\* ArrowLeft: Math.max(0, currentIndex - 1)
StepLeft(idx) == Max(0, idx - Unit)

\* mutant of StepRight: a step past the end wraps to the start
StepRightWrap(idx, maxIdx) ==
    IF idx + Unit > maxIdx * Unit THEN 0 ELSE idx + Unit

\* ArrowRight: Math.min(maxIndex, currentIndex + 1)
StepRight(idx, maxIdx) == Min(maxIdx * Unit, idx + Unit)

\* mutant of RatioNum: the ratio is not clamped to [0, 1]
RatioNumUnclamped(x) == x

\* ratio = Math.max(0, Math.min(1, x / rect.width)), as the numerator over TrackWidth
RatioNum(x) == Max(0, Min(TrackWidth, x))

\* ratio * maxIndex, in 1/Unit days
SeekIndex(x, maxIdx) == (RatioNum(x) * maxIdx * Unit) \div TrackWidth

\* What asks for a redraw is kept as one of four causes: "initial", the value
\* needsRedraw is declared with; "index", a handler moved currentIndex;
\* "resize", a ResizeObserver reported a size; "other", anything else that
\* sets needsRedraw (the species effect, a handler that assigned currentIndex
\* the value it had).
IndexCause(old, new) == IF new # old THEN "index" ELSE "other"

\* the step just taken did not call drawMap (in place of a set of causes)
NoDraw == {"none"}

\* The two history variables are recorded in RedrawSpec only; in the other
\* specifications redrawCauses stays Untracked and lastDraw stays NoDraw.
Untracked == {"untracked"}

\* the causes waiting after one more asked for a redraw
Asked(causes, cause) ==
    IF causes = Untracked THEN Untracked ELSE causes \cup {cause}

\* mutant of DrawsMap: every tick draws
DrawsMapEveryTick(flag, due) == TRUE

\* mutant of DrawsMap: the flag is tested before the advance sets it
DrawsMapIfFlagged(flag, due) == flag

\* loop calls drawMap if needsRedraw is set, by a handler before the tick or
\* by the advance of this tick
DrawsMap(flag, due) == flag \/ due

\* the callbacks pending when loop returns: the one that ran is gone, and
\* animationFrameId = requestAnimationFrame(loop) adds one
Rescheduled(pending) == (pending - 1) + 1

\* mutant of Cancelled: onDestroy cancels nothing
CancelledNothing(pending) == pending

\* if (animationFrameId) cancelAnimationFrame(animationFrameId): the callback
\* requested last, if any, is taken back
Cancelled(pending) == IF pending > 0 THEN pending - 1 ELSE pending

\* the step just taken did not call drawMap (in place of an index)
NoIndex == 0 - 1

\* The logger lists the map is shown with: none, one logger, two on one
\* parallel, two apart in both coordinates (the middle latitude is 60 in all).
LoggersApart ==
    <<[name |-> "a", latitude |-> Fin(59, 1), longitude |-> Fin(0, 1)],
      [name |-> "b", latitude |-> Fin(61, 1), longitude |-> Fin(2, 1)]>>

LoggerLists ==
    { <<>>,
      <<[name |-> "a", latitude |-> Fin(60, 1), longitude |-> Fin(0, 1)]>>,
      <<[name |-> "a", latitude |-> Fin(60, 1), longitude |-> Fin(0, 1)],
        [name |-> "b", latitude |-> Fin(60, 1), longitude |-> Fin(2, 1)]>>,
      LoggersApart }

\* the sizes a ResizeObserver entry reports for the map container
MapSizes == {<<0, 0>>, <<800, 0>>, <<400, 350>>, <<800, 350>>}

\* the value of geoBounds: the bounds of the loggers padded by 0.15 of their
\* range, which is what getMapBounds computes with that padding; zeros
\* without loggers
BoundsOf(logs) ==
    IF Len(logs) = 0
    THEN [minLat |-> Fin(0, 1), maxLat |-> Fin(0, 1),
          minLon |-> Fin(0, 1), maxLon |-> Fin(0, 1)]
    ELSE getMapBounds(logs, Fin(15, 100))

\* Math.cos((centerLat * Math.PI) / 180) to three decimals, for the middle
\* latitudes of LoggerLists
MathCos(centerLat) ==
    CASE centerLat = Fin(0, 1) -> Fin(1, 1)
      [] centerLat = Fin(60, 1) -> Fin(1, 2)

\* latCorrectionFactor of updateProjection and of projectCoord
latCorrectionFactor ==
    MathCos(Arith("/", Arith("+", geoBounds.minLat, geoBounds.maxLat), Fin(2, 1)))

\* mutant of Degenerate: updateProjection returns early for nothing
NeverDegenerate(w, h) == FALSE

\* the two early returns of updateProjection at size w x h; range <= 0 is
\* false for NaN
Degenerate(w, h) ==
    LET lonRange == Minus(geoBounds.maxLon, geoBounds.minLon)
        latRange == Minus(geoBounds.maxLat, geoBounds.minLat)
    IN \/ w <= 0
       \/ h <= 0
       \/ lonRange.k # "nan" /\ ~Less(Fin(0, 1), lonRange)
       \/ latRange.k # "nan" /\ ~Less(Fin(0, 1), latRange)

\* projectCoord(lon, lat) with the projection parameters params
projectCoord(lon, lat, params) ==
    [x |-> Arith("+", params.offsetX,
                 Arith("*", Arith("*", Minus(lon, geoBounds.minLon),
                                  latCorrectionFactor), params.scale)),
     y |-> Arith("+", params.offsetY,
                 Arith("*", Minus(geoBounds.maxLat, lat), params.scale))]

\* Math.min(a, b) * 1.1
ScaleToFit(a, b) ==
    Arith("*", IF a.k = "nan" \/ b.k = "nan" THEN NaN
               ELSE IF Less(b, a) THEN b ELSE a,
          Fin(11, 10))

\* the offsets that centre the bounds, projected with scale, in w x h
Centred(w, h, effectiveLonRange, latRange, scale) ==
    [offsetX |-> Arith("/", Minus(w, Arith("*", effectiveLonRange, scale)), Fin(2, 1)),
     offsetY |-> Arith("/", Minus(h, Arith("*", latRange, scale)), Fin(2, 1)),
     scale |-> scale]

\* the projectionParams updateProjection assigns past its early returns:
\* the parameters that fit the bounds into w x h
ProjectionParams(w, h) ==
    LET lonRange == Minus(geoBounds.maxLon, geoBounds.minLon)
        latRange == Minus(geoBounds.maxLat, geoBounds.minLat)
        effectiveLonRange == Arith("*", lonRange, latCorrectionFactor)
    IN Centred(Fin(w, 1), Fin(h, 1), effectiveLonRange, latRange,
               ScaleToFit(Arith("/", Fin(w, 1), effectiveLonRange),
                          Arith("/", Fin(h, 1), latRange)))

\* the loggerScreenPositions updateProjection assigns with the parameters
\* params: the position of every logger, by the expressions of projectCoord
ScreenPositions(params) ==
    [i \in 1 .. Len(loggers) |->
        projectCoord(loggers[i].longitude, loggers[i].latitude, params)]

\* updateProjection() at size w x h
updateProjection(w, h) ==
    IF Degenerate(w, h)
    THEN UNCHANGED <<projectionParams, loggerScreenPositions>>
    ELSE /\ projectionParams' = ProjectionParams(w, h)
         /\ loggerScreenPositions' = ScreenPositions(projectionParams')

\* drawMap gets past its first return: the canvas of a mounted component is
\* bound, so this asks for a current species and a logger position
DrawMapRuns == currentSpecies # 0 /\ loggerScreenPositions # <<>>

\* timeSeries.sites[logger.name] of a species: the logger's count on each
\* day of the series (the same series for every logger)
SiteCounts(entry) == [d \in 1 .. entry.numDays |-> (d * d) % (MaxCount + 1)]

\* what drawMap computes for one logger from the index idx it reads: the two
\* day indices, the fraction t, the interpolated count, and whether the
\* logger's glow is drawn (counts[i] || 0 is 0 beyond the series)
Interpolated(idx, maxIdx, counts) ==
    LET idxFloor == idx \div Unit
        idxCeil == Min(idxFloor + 1, maxIdx)
        t == Fin(idx - idxFloor * Unit, Unit)
        At(i) == IF i + 1 \in DOMAIN counts THEN Fin(counts[i + 1], 1) ELSE Fin(0, 1)
        count1 == At(idxFloor)
        count2 == At(idxCeil)
        count == Arith("+", count1, Arith("*", Minus(count2, count1), t))
    IN [idxFloor |-> idxFloor, idxCeil |-> idxCeil, t |-> t, count |-> count,
        \* if (count < 0.5) continue
        drawn |-> ~Less(count, Fin(1, 2))]

\* the state initialisers, but for the props and the loggers
Initialised ==
    /\ selectedSpecies = NULL
    /\ lifecycle = "created"
    /\ pendingFrames = 0
    /\ isPlaying = FALSE
    /\ currentIndex = 0
    /\ needsRedraw = TRUE
    /\ lastOp = "init"
    /\ lastDraw = NoDraw
    /\ drawnIndex = NoIndex
    /\ mapWidth = 400
    /\ mapHeight = 350
    /\ projectionParams =
          [offsetX |-> Fin(0, 1), offsetY |-> Fin(0, 1), scale |-> Fin(1, 1)]
    /\ loggerScreenPositions = <<>>

\* the component before it is created: nothing to show, nothing scheduled
KdeIdle ==
    /\ species = <<>>
    /\ loggers = <<>>
    /\ geoBounds = BoundsOf(loggers)
    /\ Initialised
    /\ sinceLastFrame = 0
    /\ redrawCauses = Untracked

Created ==
    /\ species \in SpeciesProps
    /\ loggers = LoggersApart
    /\ geoBounds = BoundsOf(loggers)
    /\ Initialised
    \* lastFrameTime starts at 0 and the first frame's timestamp is arbitrary
    /\ sinceLastFrame \in {0, FRAME_INTERVAL}

KdeInit == Created /\ redrawCauses = Untracked

\* onMount: updateProjection(), startAnimationLoop schedules the first frame,
\* the key listener is added
Mount ==
    /\ lifecycle = "created"
    /\ lifecycle' = "mounted"
    /\ updateProjection(mapWidth, mapHeight)
    /\ pendingFrames' = pendingFrames + 1
    /\ lastOp' = "mount"
    /\ UNCHANGED <<statsVars, storeVars, utilVars>>
    /\ UNCHANGED <<species, selectedSpecies, isPlaying, currentIndex,
                   needsRedraw, sinceLastFrame, redrawCauses>>
    /\ UNCHANGED <<loggers, geoBounds, mapWidth, mapHeight>>
    /\ lastDraw' = NoDraw
    /\ drawnIndex' = NoIndex

\* onDestroy: cancelAnimationFrame(animationFrameId), listeners removed
Destroy ==
    /\ lifecycle = "mounted"
    /\ lifecycle' = "destroyed"
    /\ pendingFrames' = Cancelled(pendingFrames)
    /\ lastOp' = "destroy"
    /\ UNCHANGED <<statsVars, storeVars, utilVars>>
    /\ UNCHANGED <<species, selectedSpecies, isPlaying, currentIndex,
                   needsRedraw, sinceLastFrame, redrawCauses>>
    /\ lastDraw' = NoDraw
    /\ drawnIndex' = NoIndex
    /\ UNCHANGED viewVars

\* one run of loop(timestamp), dt ms after the previous frame; the browser
\* runs it whenever a callback is pending, whatever the component's lifecycle
Tick(dt) ==
    /\ pendingFrames > 0
    /\ LET elapsed == Min(FRAME_INTERVAL, sinceLastFrame + dt)
           due == isPlaying /\ elapsed >= FRAME_INTERVAL
       IN /\ currentIndex' = IF due THEN Advance(currentIndex, maxIndex)
                             ELSE currentIndex
          /\ sinceLastFrame' = IF due THEN 0 ELSE elapsed
          \* if (needsRedraw) { drawMap(); needsRedraw = false; }
          /\ needsRedraw' = FALSE
          /\ LET causes == IF due
                           THEN Asked(redrawCauses, IndexCause(currentIndex, currentIndex'))
                           ELSE redrawCauses
             IN IF causes = Untracked
                THEN UNCHANGED <<redrawCauses, lastDraw, drawnIndex>>
                ELSE IF DrawsMap(needsRedraw, due)
                     THEN /\ lastDraw' = causes
                          /\ redrawCauses' = {}
                          /\ drawnIndex' = currentIndex'
                     ELSE /\ lastDraw' = NoDraw
                          /\ redrawCauses' = causes
                          /\ drawnIndex' = NoIndex
    /\ pendingFrames' = Rescheduled(pendingFrames)
    /\ lastOp' = "tick"
    /\ UNCHANGED <<statsVars, storeVars, utilVars>>
    /\ UNCHANGED <<species, selectedSpecies, lifecycle, isPlaying>>
    /\ UNCHANGED viewVars

\* the play button, and Space through handleKeydown
TogglePlay ==
    /\ lifecycle = "mounted"
    /\ isPlaying' = ~isPlaying
    /\ lastOp' = "togglePlay"
    /\ UNCHANGED <<statsVars, storeVars, utilVars>>
    /\ UNCHANGED <<species, selectedSpecies, lifecycle, pendingFrames,
                   currentIndex, needsRedraw, sinceLastFrame, redrawCauses>>
    /\ lastDraw' = NoDraw
    /\ drawnIndex' = NoIndex
    /\ UNCHANGED viewVars

\* handleKeydown; inInput: the event target is an input or a textarea
Keydown(code, inInput) ==
    /\ lifecycle = "mounted"
    /\ IF inInput
       THEN UNCHANGED <<isPlaying, currentIndex, needsRedraw, lastOp, redrawCauses>>
       ELSE CASE code = "Space" ->
                    /\ isPlaying' = ~isPlaying
                    /\ lastOp' = "togglePlay"
                    /\ UNCHANGED <<currentIndex, needsRedraw, redrawCauses>>
              [] code = "ArrowLeft" ->
                    /\ currentIndex' = StepLeft(currentIndex)
                    /\ needsRedraw' = TRUE
                    /\ redrawCauses' =
                         Asked(redrawCauses, IndexCause(currentIndex, currentIndex'))
                    /\ lastOp' = "ArrowLeft"
                    /\ UNCHANGED isPlaying
              [] code = "ArrowRight" ->
                    /\ currentIndex' = StepRight(currentIndex, maxIndex)
                    /\ needsRedraw' = TRUE
                    /\ redrawCauses' =
                         Asked(redrawCauses, IndexCause(currentIndex, currentIndex'))
                    /\ lastOp' = "ArrowRight"
                    /\ UNCHANGED isPlaying
              [] OTHER ->
                    UNCHANGED <<isPlaying, currentIndex, needsRedraw, lastOp,
                                redrawCauses>>
    /\ UNCHANGED <<statsVars, storeVars, utilVars>>
    /\ UNCHANGED <<species, selectedSpecies, lifecycle, pendingFrames,
                   sinceLastFrame>>
    /\ lastDraw' = NoDraw
    /\ drawnIndex' = NoIndex
    /\ UNCHANGED viewVars

KeyCodes == {"Space", "ArrowLeft", "ArrowRight", "KeyA"}

\* handleTimelineClick
TimelineClick(x) ==
    /\ lifecycle = "mounted"
    /\ currentIndex' = SeekIndex(x, maxIndex)
    /\ needsRedraw' = TRUE
    /\ redrawCauses' = Asked(redrawCauses, IndexCause(currentIndex, currentIndex'))
    /\ lastOp' = "click"
    /\ UNCHANGED <<statsVars, storeVars, utilVars>>
    /\ UNCHANGED <<species, selectedSpecies, lifecycle, pendingFrames,
                   isPlaying, sinceLastFrame>>
    /\ lastDraw' = NoDraw
    /\ drawnIndex' = NoIndex
    /\ UNCHANGED viewVars

\* handleTimelineDrag (mousemove over the track)
TimelineDrag(x, buttons) ==
    /\ lifecycle = "mounted"
    /\ IF buttons # 1
       THEN UNCHANGED <<currentIndex, needsRedraw, redrawCauses>>
       ELSE /\ currentIndex' = SeekIndex(x, maxIndex)
            /\ needsRedraw' = TRUE
            /\ redrawCauses' =
                 Asked(redrawCauses, IndexCause(currentIndex, currentIndex'))
    /\ lastOp' = "drag"
    /\ UNCHANGED <<statsVars, storeVars, utilVars>>
    /\ UNCHANGED <<species, selectedSpecies, lifecycle, pendingFrames,
                   isPlaying, sinceLastFrame>>
    /\ lastDraw' = NoDraw
    /\ drawnIndex' = NoIndex
    /\ UNCHANGED viewVars

\* the parent sets the selectedSpecies prop; the species effect marks a redraw
SelectSpecies(sel) ==
    /\ lifecycle = "mounted"
    /\ sel # selectedSpecies
    /\ selectedSpecies' = sel
    /\ IF /\ CurrentSpeciesOf(species, sel) # currentSpecies
          /\ CurrentSpeciesOf(species, sel) # 0
       THEN /\ needsRedraw' = TRUE
            /\ redrawCauses' = Asked(redrawCauses, "other")
       ELSE UNCHANGED <<needsRedraw, redrawCauses>>
    /\ lastOp' = "select"
    /\ UNCHANGED <<statsVars, storeVars, utilVars>>
    /\ UNCHANGED <<species, lifecycle, pendingFrames, isPlaying, currentIndex,
                   sinceLastFrame>>
    /\ lastDraw' = NoDraw
    /\ drawnIndex' = NoIndex
    /\ UNCHANGED viewVars

\* the ResizeObserver of the container reports a size (containerWidth and
\* containerHeight are read by the template only)
Resize ==
    /\ lifecycle = "mounted"
    /\ needsRedraw' = TRUE
    /\ redrawCauses' = Asked(redrawCauses, "resize")
    /\ lastOp' = "resize"
    /\ UNCHANGED <<statsVars, storeVars, utilVars>>
    /\ UNCHANGED <<species, selectedSpecies, lifecycle, pendingFrames, isPlaying,
                   currentIndex, sinceLastFrame>>
    /\ lastDraw' = NoDraw
    /\ drawnIndex' = NoIndex
    /\ UNCHANGED viewVars

\* mutant of ResizeMap: the sizes are stored without updateProjection()
ResizeMapStale(w, h) ==
    /\ lifecycle = "mounted"
    /\ mapWidth' = w
    /\ mapHeight' = h
    /\ needsRedraw' = TRUE
    /\ redrawCauses' = Asked(redrawCauses, "resize")
    /\ lastOp' = "resizeMap"
    /\ UNCHANGED <<statsVars, storeVars, utilVars>>
    /\ UNCHANGED <<species, selectedSpecies, lifecycle, pendingFrames, isPlaying,
                   currentIndex, sinceLastFrame, loggers, geoBounds,
                   projectionParams, loggerScreenPositions>>
    /\ lastDraw' = NoDraw
    /\ drawnIndex' = NoIndex

\* the ResizeObserver of the map container reports w x h
ResizeMap(w, h) ==
    /\ lifecycle = "mounted"
    /\ mapWidth' = w
    /\ mapHeight' = h
    /\ updateProjection(w, h)
    /\ needsRedraw' = TRUE
    /\ redrawCauses' = Asked(redrawCauses, "resize")
    /\ lastOp' = "resizeMap"
    /\ UNCHANGED <<statsVars, storeVars, utilVars>>
    /\ UNCHANGED <<species, selectedSpecies, lifecycle, pendingFrames, isPlaying,
                   currentIndex, sinceLastFrame, loggers, geoBounds>>
    /\ lastDraw' = NoDraw
    /\ drawnIndex' = NoIndex

\* names the selector can pass: a listed species, or null
Selectable == {species[i].name : i \in 1 .. Len(species)} \cup {NULL}

KdeNext ==
    \/ Mount
    \/ Destroy
    \/ \E dt \in FrameDeltas : Tick(dt)
    \/ TogglePlay
    \/ \E code \in KeyCodes, inInput \in BOOLEAN : Keydown(code, inInput)
    \/ \E x \in PointerXs : TimelineClick(x)
    \/ \E x \in PointerXs, b \in Buttons : TimelineDrag(x, b)
    \/ \E sel \in Selectable : SelectSpecies(sel)

Init == KdeInit /\ StatsIdle /\ StoreIdle /\ UtilIdle
Next == KdeNext

Spec == Init /\ [][Next]_vars

\* the species lists RedrawSpec starts with: none, a three-day and a one-day
\* series, a two-day and an empty series
RedrawSpecies ==
    { <<>>,
      <<[name |-> "s1", numDays |-> 3], [name |-> "s2", numDays |-> 1]>>,
      <<[name |-> "s1", numDays |-> 2], [name |-> "s2", numDays |-> 0]>> }

\* the created component with the history of redraws recorded: needsRedraw =
\* $state(true) is the first request waiting
RedrawSpecInit ==
    /\ species \in RedrawSpecies
    /\ loggers = LoggersApart
    /\ geoBounds = BoundsOf(loggers)
    /\ Initialised
    /\ sinceLastFrame \in {0, FRAME_INTERVAL}
    /\ redrawCauses = {"initial"}
    /\ StatsIdle /\ StoreIdle /\ UtilIdle

\* the map container is resized to no size or to 800 x 350
RedrawSpecNext ==
    \/ KdeNext
    \/ Resize
    \/ \E size \in {<<0, 0>>, <<800, 350>>} : ResizeMap(size[1], size[2])

\* the playback controller with its ResizeObservers and the history of its
\* redraws
RedrawSpec == RedrawSpecInit /\ [][RedrawSpecNext]_vars

\* the playback controller over every logger list, with two short series
ViewSpecInit ==
    /\ species = <<[name |-> "s1", numDays |-> 2], [name |-> "s2", numDays |-> 1]>>
    /\ loggers \in LoggerLists
    /\ geoBounds = BoundsOf(loggers)
    /\ Initialised
    /\ sinceLastFrame \in {0, FRAME_INTERVAL}
    /\ redrawCauses = {"initial"}
    /\ StatsIdle /\ StoreIdle /\ UtilIdle

ViewSpecNext ==
    \/ KdeNext
    \/ Resize
    \/ \E size \in MapSizes : ResizeMap(size[1], size[2])

ViewSpec == ViewSpecInit /\ [][ViewSpecNext]_vars

\* The browser keeps delivering animation frames to a mounted component.
AnyTick == \E dt \in FrameDeltas : Tick(dt)
FairSpec == Spec /\ WF_vars(AnyTick)
FairRedrawSpec == RedrawSpec /\ WF_vars(AnyTick)

\* the data store alone: one session of loadAllData and its clients
StoreSpecInit == KdeIdle /\ StatsIdle /\ StoreInit /\ UtilIdle
StoreSpec == StoreSpecInit /\ [][StoreNext]_vars

\* precomputeMapStats alone, on every bounded detection series
StatsSpecInit == KdeIdle /\ StatsInit /\ StoreIdle /\ UtilIdle
StatsSpecNext == Precompute
StatsSpec == StatsSpecInit /\ [][StatsSpecNext]_vars

\* aggregateByWeek alone, on bounded series, dates and position sets
WeekSpecInit == KdeIdle /\ StatsIdle /\ StoreIdle /\ BinIdle /\ WeekInit /\ FieldIdle
WeekSpec == WeekSpecInit /\ [][AggregateByWeek]_vars

\* renderKDEToCanvas alone, on bounded weeks, positions and canvases
FieldSpecInit == KdeIdle /\ StatsIdle /\ StoreIdle /\ BinIdle /\ WeekIdle /\ FieldInit
FieldSpec == FieldSpecInit /\ [][RenderKDE]_vars

\* the timeline bins alone, on every bounded series and bin size
BinSpecInit == KdeIdle /\ StatsIdle /\ StoreIdle /\ BinInit /\ WeekIdle /\ FieldIdle
BinSpec == BinSpecInit /\ [][Bin]_vars

\* ==========================================================================
\* Claims about the playback controller
\* ==========================================================================

\* C1: in every reachable state 0 <= currentIndex <= maxIndex, also after the
\* selected species changes to one whose series has a different length.
C1_IndexWithinSeries ==
    /\ 0 <= currentIndex
    /\ currentIndex <= maxIndex * Unit

\* C2: a due tick of a playing controller adds exactly PLAY_SPEED and wraps to
\* 0 at or past maxIndex with isPlaying still true; isPlaying changes only
\* through togglePlay; and a controller that stays mounted and playing, with
\* nothing but animation frames happening, is at index 0 infinitely often.
C2_PlaybackLoops ==
    /\ [][\A dt \in FrameDeltas :
            (Tick(dt) /\ isPlaying /\ sinceLastFrame + dt >= FRAME_INTERVAL)
            => /\ currentIndex' =
                    IF currentIndex + PLAY_SPEED >= maxIndex * Unit
                    THEN 0 ELSE currentIndex + PLAY_SPEED
               /\ currentIndex' < Max(1, maxIndex * Unit)
               /\ isPlaying']_vars
    /\ [][isPlaying' # isPlaying => (TogglePlay \/ Keydown("Space", FALSE))]_vars
    /\ ((<>[](lifecycle = "mounted" /\ isPlaying) /\ <>[][AnyTick]_vars)
            => []<>(currentIndex = 0))

\* a playing controller has just wrapped from the end of a series to 0
C2_Witness ==
    /\ lastOp = "tick"
    /\ isPlaying
    /\ sinceLastFrame = 0
    /\ currentIndex = 0
    /\ maxIndex >= 3

\* C3: ArrowLeft sets the index to max(0, index - 1), ArrowRight to
\* min(maxIndex, index + 1); a step left at 0 or right at maxIndex leaves the
\* index where it is; a step never changes isPlaying.
C3_StepClamped ==
    [][/\ Keydown("ArrowLeft", FALSE)
            => /\ currentIndex' = Max(0, currentIndex - Unit)
               /\ (currentIndex = 0 => currentIndex' = 0)
               /\ isPlaying' = isPlaying
       /\ Keydown("ArrowRight", FALSE)
            => /\ currentIndex' = Min(maxIndex * Unit, currentIndex + Unit)
               /\ (currentIndex = maxIndex * Unit => currentIndex' = currentIndex)
               /\ isPlaying' = isPlaying]_vars

\* ArrowRight was pressed and the index stands at the end of a series of
\* several days
C3_Witness ==
    /\ lastOp = "ArrowRight"
    /\ maxIndex >= 2
    /\ currentIndex = maxIndex * Unit

\* the index a seek at pointer offset x must produce: 0 left of the track,
\* maxIndex right of it, x / TrackWidth * maxIndex in between
SeekLands(x, idx, maxIdx) ==
    IF x <= 0 THEN idx = 0
    ELSE IF x >= TrackWidth THEN idx = maxIdx * Unit
    ELSE idx * TrackWidth = x * maxIdx * Unit

\* C4: a timeline seek sets the index to ratio * maxIndex with the ratio
\* clamped to [0, 1]; a drag seeks only with buttons = primary; a seek never
\* changes isPlaying.
C4_SeekLinearClamped ==
    [][/\ \A x \in PointerXs :
            TimelineClick(x)
            => /\ SeekLands(x, currentIndex', maxIndex)
               /\ isPlaying' = isPlaying
       /\ \A x \in PointerXs, b \in Buttons :
            TimelineDrag(x, b)
            => /\ IF b = 1 THEN SeekLands(x, currentIndex', maxIndex)
                  ELSE currentIndex' = currentIndex
               /\ isPlaying' = isPlaying]_vars

\* a click has landed strictly inside a series of several days
C4_Witness ==
    /\ lastOp = "click"
    /\ maxIndex >= 2
    /\ 0 < currentIndex
    /\ currentIndex < maxIndex * Unit

\* ==========================================================================
\* Claims about the data store
\* ==========================================================================

ServerNames == {serverSpecies[i].name : i \in 1 .. Len(serverSpecies)}

\* C5: however often loadAllData is called, there is one load and one run of
\* precomputeMapStats, every call returns that load's promise, and all calls
\* of getSpeciesMapStats for one name return one and the same object.
C5_StatsComputedOnce ==
    /\ loadPromise.id <= 1
    /\ lastReturned \in {0, loadPromise.id}
    /\ precomputeRuns <= 1
    /\ loaderCalls <= 7
    /\ \A n \in SpeciesNames : Cardinality(statsReturned[n]) <= 1
    /\ \A n \in SpeciesNames :
          statsReturned[n] # {} => statsReturned[n] = {StatsLookup(appData, n).id}

\* the load is complete, loadAllData was also called while it was in progress
\* and after it, and the stats of both species have been read
C5_Witness ==
    /\ pc = "done"
    /\ sharedLoad = {"pending", "fulfilled"}
    /\ statsReturned["s1"] # {}
    /\ statsReturned["s2"] # {}

\* C6: the object getSpeciesMapStats returns for the name of a species holds
\* the statistics of that species' own series, also when two entries of the
\* species list carry one name.
C6_StatsOfOwnSeries ==
    \A i \in 1 .. Len(serverSpecies) :
        StatsLookup(appData, serverSpecies[i].name) # NoObject
            => StatsLookup(appData, serverSpecies[i].name).stats
                    = StatsOf(serverSpecies[i].timeSeries)

\* every per-day array of a stats object has one entry per date
StatsComplete(stats, numDays) ==
    /\ Len(stats.dailyTotals) = numDays
    /\ Len(stats.dailyTrends) = numDays
    /\ Len(stats.dailyClustering) = numDays
    /\ Len(stats.cumulativeTotal) = numDays
    /\ Len(stats.activeSiteCounts) = numDays

\* C7: at every point of the load getSpeciesMapStats returns null or a
\* complete object of a species of that name, and a data callback is only
\* ever called at stage 'complete' with species data, logger positions and
\* the stats of every species in place.
C7_NoPartialResults ==
    /\ \A n \in SpeciesNames :
          LET o == StatsLookup(appData, n)
          IN o # NoObject
                => /\ o.id[2] \in 1 .. Len(serverSpecies)
                   /\ serverSpecies[o.id[2]].name = n
                   /\ StatsComplete(o.stats, serverSpecies[o.id[2]].timeSeries.numDays)
    /\ \A snap \in dataCallLog :
          /\ snap.stage = "complete"
          /\ snap.speciesData # NULL
          /\ snap.loggerPositions = "positions"
          /\ snap.statsFor = ServerNames
    /\ (\E cb \in DataCallbacks : dataCalls[cb] > 0) => loadingState.stage = "complete"

\* the load of two species is complete, a data callback was called and the
\* stats of a species have been read
C7_Witness ==
    /\ pc = "done"
    /\ Len(serverSpecies) = 2
    /\ dataCalls["d1"] >= 1
    /\ dataCallLog # {}
    /\ statsReturned["s1"] # {}

\* C8: once the detection data and the logger positions are loaded, the load
\* ends at 'complete' with stats for every species, whatever happens to the
\* perimeter, bird, NDVI, weather and image requests.
C8_OptionalInputsDoNotBlock ==
    (/\ pc \in {"done", "failed"}
     /\ appData.speciesData # NULL
     /\ appData.loggerPositions = "positions")
        => /\ loadingState.stage = "complete"
           /\ DOMAIN appData.speciesMapStats = ServerNames

\* C9: when the detection data or the logger positions fail to load, the
\* promise is rejected, the loading state is 'error' with progress 0 and the
\* message of the error, no data callback is called, the stats stay empty,
\* and later calls return the same promise and call no loader again.
C9_MandatoryFailureIsFinal ==
    thrown.at \in {"species", "loggers"}
        => /\ loadPromise = [id |-> 1, status |-> "rejected"]
           /\ lastReturned = 1
           /\ loadingState.stage = "error"
           /\ loadingState.progress = 0
           /\ loadingState.error \in
                 {"Failed to fetch",
                  IF thrown.at = "species" THEN "Failed to load species data"
                  ELSE "Failed to load logger positions"}
           /\ \A cb \in DataCallbacks : dataCalls[cb] = 0
           /\ appData.speciesMapStats = <<>>
           /\ loaderCalls = (IF thrown.at = "species" THEN 1 ELSE 2)

\* the logger positions failed to load, loadAllData was called again after
\* that, and a registered data callback is still waiting
C9_Witness ==
    /\ thrown.at = "loggers"
    /\ "rejected" \in sharedLoad
    /\ dataSubscribers # {}

\* the place of a stage in the order the claim gives
StageRank(stage) ==
    CASE stage = "idle" -> 0 [] stage = "species" -> 1 [] stage = "loggers" -> 2
      [] stage = "birds" -> 3 [] stage = "ndvi" -> 4 [] stage = "processing" -> 5
      [] stage = "weather" -> 6 [] stage = "images" -> 7 [] stage = "complete" -> 8
      [] OTHER -> 9

\* the announcements so far are in order: the first is 'species', each next
\* one keeps the stage or moves to the stage after it without a lower
\* progress, 100 is announced at 'complete' and only there, and 'error', with
\* progress 0, and 'complete' are followed by nothing
AnnouncedInOrder ==
    /\ progressLog # <<>> => progressLog[1][1] = "species"
    /\ \A i \in 1 .. Len(progressLog) :
          /\ progressLog[i][1] = "error"
                => progressLog[i][2] = 0 /\ i = Len(progressLog) /\ i > 1
          /\ progressLog[i][1] = "complete" => i = Len(progressLog)
          /\ (progressLog[i][2] = 100) = (progressLog[i][1] = "complete")
          /\ StageRank(progressLog[i][1]) \in 1 .. 9
          /\ (i > 1 /\ progressLog[i][1] # "error")
                => /\ StageRank(progressLog[i][1]) - StageRank(progressLog[i - 1][1])
                        \in {0, 1}
                   /\ progressLog[i][2] >= progressLog[i - 1][2]

\* loadingState is the last announcement, or still the idle state
StateIsLastAnnounced ==
    IF progressLog = <<>> THEN loadingState.stage = "idle" /\ loadingState.progress = 0
    ELSE /\ loadingState.stage = progressLog[Len(progressLog)][1]
         /\ loadingState.progress = progressLog[Len(progressLog)][2]

\* once the stage is 'complete' or 'error' no step changes the loading state
TerminalStages ==
    loadingState.stage \in {"complete", "error"} => loadingState' = loadingState

\* C28: the loading state moves through idle, species, loggers, birds, ndvi,
\* processing, weather, images, complete in this order, the progress never
\* decreasing and 100 exactly at 'complete'; the only other move is to
\* 'error' with progress 0; 'complete' and 'error' are terminal; every
\* registered loading callback has been called with the current state.
C28_LoadingStagesInOrder ==
    /\ [](AnnouncedInOrder /\ StateIsLastAnnounced)
    /\ [](\A cb \in subscribers : loadingSeen[cb] = loadingState.stage)
    /\ [][TerminalStages]_vars

\* a load has run through all nine announcements to 'complete' under the
\* eyes of a loading callback, and loadAllData was called again afterwards
C28_Witness ==
    /\ loadingState.stage = "complete"
    /\ Len(progressLog) = 9
    /\ progressLog[6] = <<"processing", 65>>
    /\ "l1" \in subscribers
    /\ loadingSeen["l1"] = "complete"
    /\ "fulfilled" \in sharedLoad

\* a data callback is called only when, registered, it is in the set at
\* completion, or when it is registered after completion
DataCalledOnlyWhenDue ==
    \A cb \in DataCallbacks :
        dataCalls'[cb] # dataCalls[cb]
            => /\ dataCalls'[cb] = dataCalls[cb] + 1
               /\ received'[cb] # NotRegistered
               /\ loadingState'.stage = "complete"
               /\ \/ loadingState.stage = "images" /\ received[cb] # NotRegistered
                  \/ loadingState.stage = "complete" /\ dataSubscribers' = dataSubscribers \cup {cb}

\* C29: a registered data callback has been called exactly once since its
\* registration if the load is complete and not at all otherwise, so never
\* when the load has failed; a callback is called only at completion or at
\* its own registration after completion, and never after the function that
\* unsubscribes it has run.
C29_DataDeliveredOnce ==
    /\ [](\A cb \in DataCallbacks :
            received[cb] # NotRegistered
                => received[cb] = (IF loadingState.stage = "complete" THEN 1 ELSE 0))
    /\ [][DataCalledOnlyWhenDue]_vars

\* after completion one callback, registered before, has been called once,
\* and the other, unsubscribed before the load completed and never
\* registered again, has not been called
C29_Witness ==
    /\ loadingState.stage = "complete"
    /\ received["d1"] = 1
    /\ dataCalls["d1"] = 1
    /\ received["d2"] = NotRegistered
    /\ dataCalls["d2"] = 0
    /\ "d2" \notin dataSubscribers

\* ==========================================================================
\* Claims about the statistics
\* ==========================================================================

\* the series with every missing entry written as 0 and every logger's series
\* cut or padded to the length of dates
ExplicitZeros(ts) ==
    [ts EXCEPT !.sites = [s \in 1 .. Len(ts.sites) |->
        [name |-> ts.sites[s].name,
         counts |-> [d \in 1 .. ts.numDays |->
            IF d <= Len(ts.sites[s].counts) /\ ts.sites[s].counts[d] # NullCount
            THEN ts.sites[s].counts[d] ELSE 0]]]]

\* C10: a missing per-logger value counts as 0 and is never an error: for a
\* series that is short, long or holds nulls, precomputeMapStats completes
\* and its outputs equal those for the same series with explicit zeros.
C10_MissingIsZero ==
    statsResult # StatsPending
        => statsResult = [threw |-> FALSE, stats |-> StatsOf(ExplicitZeros(statsInput))]

\* precomputeMapStats has run on statsInput and returned a stats object
HasStats == statsResult # StatsPending /\ ~statsResult.threw

\* the loggers whose series reaches day d
SitesOn(d) == {k \in 1 .. Len(statsInput.sites) : Len(statsInput.sites[k].counts) >= d}

\* what logger k reports for day d, a missing value read as 0
Reported(k, d) ==
    IF statsInput.sites[k].counts[d] = NullCount THEN 0
    ELSE statsInput.sites[k].counts[d]

\* the distinct counts the loggers report for day d
CountsOn(d) == {Reported(k, d) : k \in SitesOn(d)}

RECURSIVE SumOver(_, _)
\* the sum of f over the set S
SumOver(f, S) ==
    IF S = {} THEN 0
    ELSE LET x == CHOOSE y \in S : TRUE
         IN f[x] + SumOver(f, S \ {x})

\* the detections of all loggers on day d
ReportedTotal(d) == SumOver([k \in SitesOn(d) |-> Reported(k, d)], SitesOn(d))

\* a fraction <<p, q>> lies in [0, 1]
InUnitInterval(r) == r[2] > 0 /\ 0 <= r[1] /\ r[1] <= r[2]

PrevSeven(totals, d) ==
    totals[d - 7] + totals[d - 6] + totals[d - 5] + totals[d - 4]
        + totals[d - 3] + totals[d - 2] + totals[d - 1]

\* seven days of 10 detections followed by a day of 15
StartsSevenTensThenFifteen ==
    /\ statsInput.numDays >= 8
    /\ Len(statsInput.sites) = 1
    /\ Len(statsInput.sites[1].counts) = statsInput.numDays
    /\ \A d \in 1 .. 7 : statsInput.sites[1].counts[d] = 10
    /\ statsInput.sites[1].counts[8] = 15

\* C13: the trend of each of the first seven days is 0; from the eighth day
\* on it is (total - prevMean) / prevMean clamped to [-1, 1], prevMean being
\* the mean of the seven days before, and 0 when prevMean is 0; every trend
\* lies in [-1, 1]; seven days of 10 and then 15 give 1/2 on the eighth day.
C13_TrendRollingWindow ==
    HasStats =>
        /\ \A d \in 1 .. statsInput.numDays :
              LET t == statsResult.stats.dailyTrends[d]
                  cur == statsResult.stats.dailyTotals[d]
              IN /\ t[2] > 0
                 /\ 0 - t[2] <= t[1]
                 /\ t[1] <= t[2]
                 /\ d <= 7 => t = <<0, 1>>
                 /\ d > 7 =>
                      LET prev == PrevSeven(statsResult.stats.dailyTotals, d)
                      IN IF prev <= 0 THEN t = <<0, 1>>
                         ELSE IF 7 * cur - prev > prev THEN t = <<1, 1>>
                         ELSE IF 7 * cur - prev < 0 - prev THEN t = <<0 - 1, 1>>
                         ELSE t[1] * prev = t[2] * (7 * cur - prev)
        /\ StartsSevenTensThenFifteen => statsResult.stats.dailyTrends[8] = <<1, 2>>

\* the stats of seven days of 10 followed by a day of 15 have been computed
C13_Witness ==
    /\ HasStats
    /\ StartsSevenTensThenFifteen
    /\ statsResult.stats.dailyTrends[8] = <<1, 2>>

\* every count of statsInput, indexed by logger and day
AllReports ==
    {<<k, d>> \in (1 .. Len(statsInput.sites)) \X (1 .. statsInput.numDays) :
        k \in SitesOn(d)}

\* C14: cumulativeTotal has one entry per day, entry d is the sum of the
\* daily totals up to and including day d, the entries never decrease, and
\* the last one is the sum of all daily totals and of all per-logger counts.
C14_CumulativeRunningSum ==
    HasStats =>
        LET cum == statsResult.stats.cumulativeTotal
            totals == statsResult.stats.dailyTotals
            n == statsInput.numDays
        IN /\ Len(cum) = n
           /\ \A d \in 1 .. n : cum[d] = SumOver(totals, 1 .. d)
           /\ \A d \in 1 .. n : d > 1 => cum[d - 1] <= cum[d]
           /\ n > 0 => /\ cum[n] = SumOver(totals, 1 .. n)
                       /\ cum[n] = SumOver([pr \in AllReports |-> Reported(pr[1], pr[2])],
                                           AllReports)

\* two loggers, detections on both of two days
C14_Witness ==
    /\ HasStats
    /\ statsInput.numDays = 2
    /\ Len(statsInput.sites) = 2
    /\ statsResult.stats.cumulativeTotal[1] >= 2
    /\ statsResult.stats.cumulativeTotal[2] > statsResult.stats.cumulativeTotal[1]

\* the largest count any logger reports on any day, 0 if there is none
LargestReport ==
    LET reports == {Reported(pr[1], pr[2]) : pr \in AllReports} \cup {0}
    IN CHOOSE m \in reports : \A c \in reports : c <= m

\* what C15 says of every field but globalMax
DailyFieldsAsSpecified ==
    /\ \A d \in 1 .. statsInput.numDays :
          /\ statsResult.stats.dailyTotals[d] = ReportedTotal(d)
          /\ statsResult.stats.activeSiteCounts[d]
                = Cardinality({k \in SitesOn(d) : Reported(k, d) # 0})
    /\ statsResult.stats.totalActiveSites
          = Cardinality({k \in 1 .. Len(statsInput.sites) :
                \E d \in 1 .. statsInput.numDays :
                    k \in SitesOn(d) /\ Reported(k, d) # 0})
    /\ statsInput = SingleActiveLogger
          => /\ statsResult.stats.globalMax = 10
             /\ statsResult.stats.dailyTotals = <<0, 10, 0>>
             /\ statsResult.stats.activeSiteCounts = <<0, 1, 0>>
             /\ statsResult.stats.totalActiveSites = 1
             /\ statsResult.stats.dailyClustering = <<<<0, 1>>, <<0, 1>>, <<0, 1>>>>

C26_DenominatorsFlooredAtOne ==
    HasStats =>
        /\ statsResult.stats.globalMax >= CountOne(statsInput)
        /\ statsResult.stats.maxDailyTotal >= CountOne(statsInput)
        /\ statsResult.stats.globalMax >= LargestReport
        /\ \A d \in 1 .. statsInput.numDays :
              statsResult.stats.maxDailyTotal >= statsResult.stats.dailyTotals[d]

\* ==========================================================================
\* Claims about the timeline bins
\* ==========================================================================

\* the bin size the claim names for a timelineBinDays given in halves
ClaimedSize(halves) == IF halves < 2 THEN 1 ELSE halves \div 2

\* C18: with N = max(1, floor(size)) and L daily totals there are ceil(L/N)
\* bins, bin k sums the totals of days k*N to min((k+1)*N, L) - 1, the bins
\* sum to the sum of the totals, binnedDates has as many entries with entry k
\* the date of day k*N; N = 1 returns the totals, N > L one bin with the whole
\* sum, and [1,2,3,4,5] in bins of 2 gives [3, 7, 5].
C18_BinsPartitionSeries ==
    binResult # Pending =>
        LET N == ClaimedSize(binInput.timelineBinDays)
            totals == binInput.dailyTotals
            L == Len(totals)
            bins == binResult.totals
            numBins == (L + N - 1) \div N
        IN /\ Len(bins) = numBins
           /\ \A k \in 0 .. numBins - 1 :
                 bins[k + 1] = SumOver(totals, (k * N + 1) .. Min((k + 1) * N, L))
           /\ SumOver(bins, 1 .. Len(bins)) = SumOver(totals, 1 .. L)
           /\ Len(binResult.dates) = numBins
           /\ \A k \in 0 .. numBins - 1 : binResult.dates[k + 1] = binInput.dates[k * N + 1]
           /\ N = 1 => bins = totals
           /\ (N > L /\ L > 0) => bins = <<SumOver(totals, 1 .. L)>>
           /\ (totals = <<1, 2, 3, 4, 5>> /\ N = 2) => bins = <<3, 7, 5>>

\* the totals 1 to 5 were put into bins of two days given as 2.5
C18_Witness ==
    /\ binResult # Pending
    /\ binInput.dailyTotals = <<1, 2, 3, 4, 5>>
    /\ binInput.timelineBinDays = 5
    /\ binResult.totals = <<3, 7, 5>>
    /\ Len(binResult.dates) = 3

\* ==========================================================================
\* Claims about the weekly aggregation
\* ==========================================================================

\* the loggers of weekInput that have a position
PositionedSites ==
    {k \in 1 .. Len(weekInput.sites) : weekInput.sites[k].name \in weekInput.positioned}

\* what logger k reports for the i-th date, a missing value read as 0
WeekReported(k, i) ==
    LET counts == weekInput.sites[k].counts
    IN IF i > Len(counts) THEN 0
       ELSE IF counts[i] = NullCount THEN 0 ELSE counts[i]

\* the detections of the positioned loggers on the dates with index in days
PositionedTotal(days) ==
    LET cells == PositionedSites \X days
    IN SumOver([c \in cells |-> WeekReported(c[1], c[2])], cells)

\* C16: the week totals sum to the counts the positioned loggers report for
\* the dates of the series; a logger without a position appears in no week's
\* loggers map and adds to no total or maximum.
C16_WeeksConserveDetections ==
    weekResult # Pending =>
        LET weeks == weekResult.weeks
        IN /\ SumOver([k \in 1 .. Len(weeks) |-> weeks[k].totalDetections], 1 .. Len(weeks))
                = PositionedTotal(1 .. Len(weekInput.dates))
           /\ \A k \in 1 .. Len(weeks) :
                 /\ DOMAIN weeks[k].loggers \subseteq weekInput.positioned
                 /\ weeks[k].totalDetections
                        = SumOver(weeks[k].loggers, DOMAIN weeks[k].loggers)
                 /\ \A n \in DOMAIN weeks[k].loggers :
                        weeks[k].loggers[n] <= weeks[k].maxLoggerDetections
                 /\ \/ weeks[k].maxLoggerDetections = 0
                    \/ \E n \in DOMAIN weeks[k].loggers :
                          weeks[k].loggers[n] = weeks[k].maxLoggerDetections

\* two weeks were returned for a series in which a logger without a position
\* and a logger with one both report detections
C16_Witness ==
    /\ weekResult # Pending
    /\ Len(weekResult.weeks) = 2
    /\ weekInput.positioned = {"a"}
    /\ PositionedTotal(1 .. Len(weekInput.dates)) > 0
    /\ \E d \in 1 .. Len(weekInput.dates) : weekInput.sites[2].counts[d] > 0

\* the Monday on or before a date
MondayOnOrBefore(date) == CHOOSE m \in (date - 6) .. date : (m + 3) % 7 = 0

\* C17: every date falls into exactly one returned week, whose weekStart is
\* the Monday on or before it and whose weekEnd is six days later; the week
\* holds the detections of exactly its dates; the weekStarts are pairwise
\* distinct and strictly ascending, whatever the order of the dates.
C17_MondayWeeksAscending ==
    weekResult # Pending =>
        LET weeks == weekResult.weeks
            dates == weekInput.dates
        IN /\ \A i \in 1 .. Len(dates) :
                 /\ Cardinality({k \in 1 .. Len(weeks) :
                        weeks[k].weekStart <= dates[i] /\ dates[i] <= weeks[k].weekEnd}) = 1
                 /\ \E k \in 1 .. Len(weeks) : weeks[k].weekStart = MondayOnOrBefore(dates[i])
           /\ \A k \in 1 .. Len(weeks) :
                 /\ weeks[k].weekEnd = weeks[k].weekStart + 6
                 /\ \E i \in 1 .. Len(dates) : weeks[k].weekStart = MondayOnOrBefore(dates[i])
                 /\ weeks[k].totalDetections
                        = PositionedTotal({i \in 1 .. Len(dates) :
                              MondayOnOrBefore(dates[i]) = weeks[k].weekStart})
           /\ \A k \in 1 .. Len(weeks) - 1 : weeks[k].weekStart < weeks[k + 1].weekStart

\* a series whose first date is a Monday and whose second date is the Sunday
\* before it came back as two weeks, the Sunday's week first
C17_Witness ==
    /\ weekResult # Pending
    /\ Len(weekInput.dates) >= 2
    /\ weekInput.dates[1] = 4
    /\ weekInput.dates[2] = 3
    /\ Len(weekResult.weeks) = 2
    /\ weekResult.weeks[1].weekStart = 0 - 3
    /\ weekResult.weeks[2].weekStart = 4

\* the indices of the dates that fall into the week starting at weekStart
DaysOfWeek(weekStart) ==
    {i \in 1 .. Len(weekInput.dates) :
        weekStart <= weekInput.dates[i] /\ weekInput.dates[i] <= weekStart + 6}

\* C25: in every returned week the loggers map holds exactly the positioned
\* loggers, each with its counts summed over the dates of the week;
\* totalDetections is the sum of the map's values and maxLoggerDetections is
\* the largest of them, 0 for a week without a positioned logger.
C25_WeekTotalsAndMaximum ==
    weekResult # Pending =>
        \A k \in 1 .. Len(weekResult.weeks) :
            LET week == weekResult.weeks[k]
                days == DaysOfWeek(week.weekStart)
            IN /\ DOMAIN week.loggers
                     = {weekInput.sites[j].name : j \in PositionedSites}
               /\ \A j \in PositionedSites :
                     week.loggers[weekInput.sites[j].name]
                        = SumOver([i \in days |-> WeekReported(j, i)], days)
               /\ week.totalDetections = SumOver(week.loggers, DOMAIN week.loggers)
               /\ week.maxLoggerDetections
                     = IF DOMAIN week.loggers = {} THEN 0
                       ELSE CHOOSE m \in {week.loggers[n] : n \in DOMAIN week.loggers} :
                               \A n \in DOMAIN week.loggers : week.loggers[n] <= m

\* a week of two dates in which both loggers are positioned and logger "a",
\* with detections on both days, is not the one with the largest sum
C25_Witness ==
    /\ weekResult # Pending
    /\ weekInput.positioned = {"a", "b"}
    /\ \E k \in 1 .. Len(weekResult.weeks) :
          LET week == weekResult.weeks[k]
          IN /\ Cardinality(DaysOfWeek(week.weekStart)) >= 2
             /\ \A i \in DaysOfWeek(week.weekStart) : WeekReported(1, i) > 0
             /\ week.loggers["a"] < week.maxLoggerDetections
             /\ week.maxLoggerDetections > MaxCount

\* ==========================================================================
\* Claims about the density field
\* ==========================================================================

\* the loggers of the week's map that are sources of the frame
ActiveSources ==
    {i \in 1 .. Len(fieldInput.loggers) :
        /\ fieldInput.loggers[i].detections # 0
        /\ PositionOf(fieldInput.positions, fieldInput.loggers[i].name) # <<>>}

\* C11, for the density field: no cell of the field and not its maximum is
\* NaN or infinite, and a frame without an active source, or with
\* maxLoggerDetections 0, writes nothing to the canvas.
C11_NoDivisionByZeroReachesField ==
    fieldResult # Pending =>
        /\ \A i \in DOMAIN fieldResult.densityData : fieldResult.densityData[i].k = "fin"
        /\ fieldResult.maxDensity.k = "fin"
        /\ (ActiveSources = {} \/ fieldInput.maxLoggerDetections = 0)
                => ~fieldResult.written

\* the multiples by which the detections of a week are scaled
Scales == {2, 3}

\* the frame of fieldInput with every logger's detections multiplied by k
ScaledInput(k) ==
    [fieldInput EXCEPT
        !.loggers = [i \in 1 .. Len(fieldInput.loggers) |->
                        [name |-> fieldInput.loggers[i].name,
                         detections |-> k * fieldInput.loggers[i].detections]],
        !.maxLoggerDetections = k * @]

\* the frame with detections times k gives the same normalized field
ScaleInvariant ==
    \A k \in Scales :
        /\ renderKDEToCanvas(ScaledInput(k)).written = fieldResult.written
        /\ renderKDEToCanvas(ScaledInput(k)).normalized = fieldResult.normalized

OffPeak(i) ==
    Minus(Arith("*", fieldResult.normalized[i], fieldResult.maxDensity),
          fieldResult.maxDensity)

C20_RedrawOnlyOnIndexOrResize ==
    lastDraw # NoDraw => lastDraw \cap {"initial", "index", "resize"} # {}

\* a tick while paused, with nothing having asked for a redraw since the last
\* one, neither calls drawMap nor leaves needsRedraw set
PausedStaticTick ==
    (lastOp' = "tick" /\ ~isPlaying /\ redrawCauses = {})
        => (lastDraw' = NoDraw /\ ~needsRedraw')

\* C20 (amended): a tick calls drawMap only if, since the previous redraw, a
\* redraw was asked for: by the initial needsRedraw, a due tick of the
\* playback, an arrow key, a click or drag on the timeline, a resize, or a
\* change to another defined species; needsRedraw is set exactly while such a
\* request is waiting, and a paused tick with none waiting does not call
\* drawMap and leaves needsRedraw false.
C20_RedrawOnlyOnRequest ==
    /\ [](lastDraw # NoDraw => lastDraw # {})
    /\ [](needsRedraw <=> redrawCauses # {})
    /\ [][PausedStaticTick]_vars

\* a paused tick after an earlier redraw found nothing to draw
C20_Witness ==
    /\ lastOp = "tick"
    /\ ~isPlaying
    /\ lastDraw = NoDraw
    /\ redrawCauses = {}
    /\ ~needsRedraw

\* --------------------------------------------------------------------- C21
\* C21: there is one scheduling loop. At most one animation-frame callback is
\* pending at any time, a tick leaves exactly one successor pending, and once
\* the component is destroyed no tick runs, so the index is not changed and
\* drawMap is not called any more. (Tick bodies cannot overlap because a
\* callback runs to completion: every action of the model is one whole
\* callback.)
C21_OneSchedulingLoop ==
    /\ [](pendingFrames <= 1)
    /\ [][lastOp' = "tick" => pendingFrames' = 1]_vars
    /\ [][lifecycle = "destroyed" =>
            /\ lastOp' # "tick"
            /\ currentIndex' = currentIndex
            /\ lastDraw' = NoDraw]_vars

\* the component was destroyed while playing, after ticks had moved the index,
\* and the pending callback was cancelled
C21_Witness ==
    /\ lastOp = "destroy"
    /\ isPlaying
    /\ currentIndex > 0
    /\ pendingFrames = 0

\* --------------------------------------------------------------------- C30
\* C30: the playhead position timelineProgress is a defined number between 0
\* and 100 in every reachable state, also when maxIndex is 0.
C30_PlayheadWithinTrack ==
    /\ timelineProgress.k = "fin"
    /\ 0 <= timelineProgress.p
    /\ timelineProgress.p <= 100 * timelineProgress.q

\* --------------------------------------------------------------------- C22
\* the step just taken called drawMap, and drawMap got past its first return
Drew == lastDraw # NoDraw /\ DrawMapRuns

\* the projection parameters computed from the current mapWidth and mapHeight
ForCurrentSize == ProjectionParams(mapWidth, mapHeight)

\* C22: at every draw the projection parameters and every logger's stored
\* position are the ones computed from the current mapWidth and mapHeight,
\* whatever resizes came before, resizes to zero size included.
C22_PositionsMatchViewport ==
    Drew => /\ projectionParams = ForCurrentSize
            /\ loggerScreenPositions = ScreenPositions(ForCurrentSize)

\* C22 as amended: at every draw at a positive width and height the parameters
\* and positions are the ones computed from the current size, and at every
\* draw each stored position is projectCoord of its logger under the stored
\* parameters (at zero width or height those of the last positive size).
C22_PositionsMatchPositiveViewport ==
    /\ (Drew /\ mapWidth > 0 /\ mapHeight > 0) =>
            /\ projectionParams = ForCurrentSize
            /\ loggerScreenPositions = ScreenPositions(ForCurrentSize)
    /\ Drew =>
            \A i \in 1 .. Len(loggers) :
                loggerScreenPositions[i] =
                    projectCoord(loggers[i].longitude, loggers[i].latitude,
                                 projectionParams)

\* a draw asked for by a resize, at a size other than the initial one
C22_Witness ==
    /\ Drew
    /\ "resize" \in lastDraw
    /\ mapWidth = 800
    /\ mapHeight = 350

\* --------------------------------------------------------------------- C23
\* the series of the current species, and what the draw just made computed
\* from the index it read
DrawnCounts == SiteCounts(species[currentSpecies])
DrawnLogger == Interpolated(drawnIndex, maxIndex, DrawnCounts)

\* C23: at each draw f = floor(currentIndex) and c = min(f + 1, maxIndex) are
\* days of the series, t = currentIndex - f, the displayed count lies between
\* the counts of days f and c, it is the count of day f when t = 0 or
\* f = maxIndex, and a logger with a count below 0.5 is not drawn.
C23_InterpolatedBetweenDays ==
    (Drew /\ Len(DrawnCounts) > 0) =>
        LET d == DrawnLogger
            days == 0 .. (Len(DrawnCounts) - 1)
        IN /\ d.idxFloor \in days
           /\ d.idxCeil \in days
           /\ d.idxFloor * Unit <= drawnIndex
           /\ drawnIndex < (d.idxFloor + 1) * Unit
           /\ d.t = Fin(drawnIndex - d.idxFloor * Unit, Unit)
           /\ LET atFloor == Fin(DrawnCounts[d.idxFloor + 1], 1)
                  atCeil == Fin(DrawnCounts[d.idxCeil + 1], 1)
              IN /\ ~Less(d.count, atFloor) \/ ~Less(d.count, atCeil)
                 /\ ~Less(atFloor, d.count) \/ ~Less(atCeil, d.count)
                 /\ (d.t = Fin(0, 1) \/ d.idxFloor = maxIndex) => d.count = atFloor
           /\ Less(d.count, Fin(1, 2)) => ~d.drawn

\* --------------------------------------------------------------------- C24
\* the viewport has no width or no height, or the loggers span no longitude
\* or no latitude (none, one, or all on one meridian or parallel)
DegenerateGeometry(w, h, logs) ==
    \/ w <= 0
    \/ h <= 0
    \/ \A i, j \in 1 .. Len(logs) : logs[i].longitude = logs[j].longitude
    \/ \A i, j \in 1 .. Len(logs) : logs[i].latitude = logs[j].latitude

IsFinite(a) == a.k = "fin"

\* C24: with a viewport of width or height <= 0, or logger bounds of zero
\* extent, updateProjection (called on mount and on a resize of the map
\* container) leaves projectionParams and loggerScreenPositions unchanged;
\* in every state the scale is finite and strictly positive and every screen
\* position is finite.
C24_DegenerateGeometryGuarded ==
    /\ [][(lastOp' \in {"mount", "resizeMap"}
            /\ DegenerateGeometry(mapWidth', mapHeight', loggers))
          => UNCHANGED <<projectionParams, loggerScreenPositions>>]_vars
    /\ [](IsFinite(projectionParams.scale) /\ projectionParams.scale.p > 0)
    /\ [](\A i \in 1 .. Len(loggerScreenPositions) :
             /\ IsFinite(loggerScreenPositions[i].x)
             /\ IsFinite(loggerScreenPositions[i].y))

\* the map container, resized to no height, kept the positions it had
C24_Witness ==
    /\ lastOp = "resizeMap"
    /\ mapHeight = 0
    /\ mapWidth > 0
    /\ loggerScreenPositions # <<>>

\* --------------------------------------------------------------------- C27
\* C27: no redraw request is lost. While the component stays mounted, a
\* request waiting (an index change, a resize, a species change) is followed,
\* under fair scheduling of animation frames, by a drawMap call; that call
\* reads the current index and leaves needsRedraw false and no request
\* waiting; and every tick serves the requests raised before it or by its
\* own advance, so none waits beyond the next tick.
C27_NoRedrawRequestLost ==
    /\ [](lastDraw # NoDraw =>
            /\ drawnIndex = currentIndex
            /\ ~needsRedraw
            /\ redrawCauses = {})
    /\ [][lastOp' = "tick" =>
            /\ redrawCauses' = {}
            /\ (redrawCauses # {} => lastDraw' # NoDraw)
            /\ (currentIndex' # currentIndex => lastDraw' # NoDraw)]_vars
    /\ ((redrawCauses # {} /\ lifecycle = "mounted")
            ~> (lastDraw # NoDraw \/ lifecycle = "destroyed"))

\* one paused tick has served a resize and an index change together
C27_Witness ==
    /\ lastOp = "tick"
    /\ ~isPlaying
    /\ {"resize", "index"} \subseteq lastDraw
    /\ drawnIndex = currentIndex
    /\ currentIndex > 0

====
